---------------------------- MODULE Spec2Model ----------------------------
(***************************************************************************)
(* x402-xrpl settlement adapter (src/src/index.ts): the replay store, the  *)
(* challenge / receipt / amount / memo checks and verifySettlement, whose  *)
(* only suspension point is the awaited fetchTransaction.                  *)
(*                                                                         *)
(* Strings the code only compares are TLA+ strings.  Decimal strings, which *)
(* the code takes apart, are sequences of one-character strings.  A value  *)
(* that may be absent or of another JavaScript type is a tagged record.    *)
(***************************************************************************)
EXTENDS Integers, Sequences, FiniteSets, TLC

VARIABLES paymentIdToTxHash, txHashToPaymentId, calls, last, succeeded

vars == <<paymentIdToTxHash, txHashToPaymentId, calls, last, succeeded>>

(***************************************************************************)
(* Bounds of the model.                                                    *)
(***************************************************************************)
MaxCalls == 2

Calls == 1..MaxCalls

\* JavaScript undefined, where a string is expected
Undefined == "<undefined>"

(***************************************************************************)
(* Program constants.                                                      *)
(***************************************************************************)
SUPPORTED_NETWORKS == {"xrpl:1", "xrpl:testnet", "xrpl:devnet"}

PARTIAL_PAYMENT_FLAG == 131072

\* the pass value of a check that throws a SettlementErrorCode otherwise
Pass == "pass"

SettlementErrorCode ==
  {"expired_challenge", "invalid_challenge", "invalid_receipt", "network_mismatch",
   "invalid_amount", "invalid_asset", "invalid_destination", "invalid_memo",
   "replay_detected", "tx_not_validated", "tx_not_found"}

(***************************************************************************)
(* Strings as character sequences: the regular expressions of the decimal  *)
(* codec.                                                                  *)
(***************************************************************************)
Digits == {"0", "1", "2", "3", "4", "5", "6", "7", "8", "9"}

AllDigits(s) == \A i \in 1..Len(s) : s[i] \in Digits

\* index of the first "." of s, 0 when there is none
DotAt(s) ==
  IF \E i \in 1..Len(s) : s[i] = "."
    THEN CHOOSE i \in 1..Len(s) : s[i] = "." /\ \A j \in 1..(i - 1) : s[j] # "."
    ELSE 0

\* value.split(".")[0]
SplitInteger(s) == IF DotAt(s) = 0 THEN s ELSE SubSeq(s, 1, DotAt(s) - 1)

\* value.split(".")[1], Undefined-as-absent reported by HasFraction
HasFraction(s) == DotAt(s) # 0

\* value.split(".")[1] up to the next "." (the split's second element)
SplitFraction(s) ==
  LET rest == SubSeq(s, DotAt(s) + 1, Len(s))
  IN  IF ~HasFraction(s) THEN <<>>
      ELSE IF DotAt(rest) = 0 THEN rest ELSE SubSeq(rest, 1, DotAt(rest) - 1)

\* /^(?:0|[1-9]\d*)(?:\.\d+)?$/.test(value)
MatchesDecimal(s) ==
  LET int == SplitInteger(s)
      frac == SubSeq(s, DotAt(s) + 1, Len(s))
  IN  /\ Len(int) >= 1
      /\ AllDigits(int)
      /\ (int[1] = "0" => Len(int) = 1)
      /\ (HasFraction(s) => Len(frac) >= 1 /\ AllDigits(frac))

\* s.replace(/^0+(?=\d)/, ""): leading zeros that a digit follows
RECURSIVE StripLeadingZeros(_)
StripLeadingZeros(s) ==
  IF Len(s) >= 2 /\ s[1] = "0" /\ s[2] \in Digits
    THEN StripLeadingZeros(Tail(s))
    ELSE s

\* s.replace(/0+$/, "")
RECURSIVE StripTrailingZeros(_)
StripTrailingZeros(s) ==
  IF Len(s) >= 1 /\ s[Len(s)] = "0"
    THEN StripTrailingZeros(SubSeq(s, 1, Len(s) - 1))
    ELSE s

\* s.padEnd(n, "0")
RECURSIVE PadEndZeros(_, _)
PadEndZeros(s, n) == IF Len(s) >= n THEN s ELSE PadEndZeros(Append(s, "0"), n)

\* s.padStart(n, "0")
RECURSIVE PadStartZeros(_, _)
PadStartZeros(s, n) == IF Len(s) >= n THEN s ELSE PadStartZeros(<<"0">> \o s, n)

\* x || "0"
OrZero(s) == IF s = <<>> THEN <<"0">> ELSE s

\* assertDecimalAmount(value, errorCode)
assertDecimalAmount(value, errorCode) ==
  IF MatchesDecimal(value) THEN Pass ELSE errorCode

\* normalizeDecimal(value): [err, value]
normalizeDecimal(value) ==
  LET integer == OrZero(StripLeadingZeros(SplitInteger(value)))
      fraction == StripTrailingZeros(SplitFraction(value))
  IN  IF assertDecimalAmount(value, "invalid_amount") # Pass
        THEN [err |-> "invalid_amount", value |-> <<>>]
        ELSE [err |-> Pass,
              value |-> IF Len(fraction) > 0 THEN integer \o <<".">> \o fraction
                        ELSE integer]

\* xrpToDrops(xrp): [err, value]
xrpToDrops(xrp) ==
  LET rawFraction == SplitFraction(xrp)
      integer == OrZero(StripLeadingZeros(SplitInteger(xrp)))
      fractionPadded == PadEndZeros(rawFraction, 6)
      drops == OrZero(StripLeadingZeros(integer \o fractionPadded))
  IN  IF assertDecimalAmount(xrp, "invalid_amount") # Pass
        THEN [err |-> "invalid_amount", value |-> <<>>]
      ELSE IF Len(rawFraction) > 6
        THEN [err |-> "invalid_amount", value |-> <<>>]
      ELSE [err |-> Pass, value |-> drops]

\* dropsToXrp keeping the trailing zeros of the six-digit fraction
dropsToXrp_KeepZeros(drops) ==
  LET padded == PadStartZeros(drops, 7)
      whole == OrZero(StripLeadingZeros(SubSeq(padded, 1, Len(padded) - 6)))
      fractional == SubSeq(padded, Len(padded) - 5, Len(padded))
  IN  IF ~(Len(drops) >= 1 /\ AllDigits(drops))
        THEN [err |-> "invalid_amount", value |-> <<>>]
        ELSE [err |-> Pass, value |-> whole \o <<".">> \o fractional]

\* dropsToXrp(drops): [err, value]
dropsToXrp(drops) ==
  LET padded == PadStartZeros(drops, 7)
      whole == OrZero(StripLeadingZeros(SubSeq(padded, 1, Len(padded) - 6)))
      fractional == StripTrailingZeros(SubSeq(padded, Len(padded) - 5, Len(padded)))
  IN  IF ~(Len(drops) >= 1 /\ AllDigits(drops))
        THEN [err |-> "invalid_amount", value |-> <<>>]
        ELSE [err |-> Pass,
              value |-> IF Len(fractional) > 0 THEN whole \o <<".">> \o fractional
                        ELSE whole]

(***************************************************************************)
(* Plain strings: assertNonEmpty reads value.trim().length.                *)
(***************************************************************************)
\* the strings of the model whose trim() is empty
Blank == {"", " "}

\* assertNonEmpty(value, field, errorCode)
assertNonEmpty(value, errorCode) == IF value \in Blank THEN errorCode ELSE Pass

\* isSupportedNetwork testing the "xrpl:" prefix only
isSupportedNetwork_Prefix(value) == value \in SUPPORTED_NETWORKS \cup {"xrpl:unknown"}

\* isSupportedNetwork(value)
isSupportedNetwork(value) == value \in SUPPORTED_NETWORKS

\* assertSupportedNetwork(network)
assertSupportedNetwork(network) ==
  IF isSupportedNetwork(network) THEN Pass ELSE "network_mismatch"

(***************************************************************************)
(* A timestamp string is the three facts the code reads from it: whether   *)
(* new Date(value) is a valid date (and then its getTime()), whether the   *)
(* string includes "T", whether it ends with "Z".                          *)
(***************************************************************************)
IsoUtc(t) == [valid |-> TRUE, time |-> t, hasT |-> TRUE, endsZ |-> TRUE]

\* assertFutureOrPresentISODate(value, errorCode)
assertFutureOrPresentISODate(value, errorCode) ==
  IF ~value.valid \/ ~value.hasT \/ ~value.endsZ THEN errorCode ELSE Pass

\* the first check of a list that does not pass, Pass when all do
RECURSIVE FirstFailure(_)
FirstFailure(checks) ==
  IF checks = <<>> THEN Pass
  ELSE IF Head(checks) # Pass THEN Head(checks)
  ELSE FirstFailure(Tail(checks))

(***************************************************************************)
(* Challenge: [version, network, amount, asset, destination, expiresAt,    *)
(* paymentId, memo]; asset is [kind, currency, issuer] (currency and issuer *)
(* are "" for XRP); memo is [format, paymentId, sessionId].                *)
(***************************************************************************)
XrpAsset == [kind |-> "XRP", currency |-> "", issuer |-> ""]

IouAsset(currency, issuer) == [kind |-> "IOU", currency |-> currency, issuer |-> issuer]

\* createChallenge returning the amount as it was given
createChallenge_RawAmount(params) ==
  LET err == FirstFailure(<<
        assertSupportedNetwork(params.network),
        assertDecimalAmount(params.amount, "invalid_challenge"),
        assertFutureOrPresentISODate(params.expiresAt, "invalid_challenge"),
        IF params.asset.kind = "IOU"
          THEN FirstFailure(<<assertNonEmpty(params.asset.currency, "invalid_challenge"),
                              assertNonEmpty(params.asset.issuer, "invalid_challenge")>>)
          ELSE Pass,
        assertNonEmpty(params.destination, "invalid_challenge"),
        assertNonEmpty(params.paymentId, "invalid_challenge")>>)
  IN  [err |-> err,
       challenge |->
         [version |-> "2",
          network |-> params.network,
          amount |-> params.amount,
          asset |-> params.asset,
          destination |-> params.destination,
          expiresAt |-> params.expiresAt,
          paymentId |-> params.paymentId,
          memo |-> [format |-> "x402",
                    paymentId |-> params.paymentId,
                    sessionId |-> params.sessionId]]]

\* createChallenge(params): [err, challenge]
createChallenge(params) ==
  LET err == FirstFailure(<<
        assertSupportedNetwork(params.network),
        assertDecimalAmount(params.amount, "invalid_challenge"),
        assertFutureOrPresentISODate(params.expiresAt, "invalid_challenge"),
        IF params.asset.kind = "IOU"
          THEN FirstFailure(<<assertNonEmpty(params.asset.currency, "invalid_challenge"),
                              assertNonEmpty(params.asset.issuer, "invalid_challenge")>>)
          ELSE Pass,
        assertNonEmpty(params.destination, "invalid_challenge"),
        assertNonEmpty(params.paymentId, "invalid_challenge")>>)
  IN  [err |-> err,
       challenge |->
         [version |-> "2",
          network |-> params.network,
          amount |-> IF err = Pass THEN normalizeDecimal(params.amount).value
                     ELSE params.amount,
          asset |-> params.asset,
          destination |-> params.destination,
          expiresAt |-> params.expiresAt,
          paymentId |-> params.paymentId,
          memo |-> [format |-> "x402",
                    paymentId |-> params.paymentId,
                    sessionId |-> params.sessionId]]]

\* validateChallenge(challenge)
validateChallenge(challenge) ==
  FirstFailure(<<
    assertSupportedNetwork(challenge.network),
    IF challenge.version # "2" THEN "invalid_challenge" ELSE Pass,
    assertDecimalAmount(challenge.amount, "invalid_challenge"),
    assertNonEmpty(challenge.destination, "invalid_challenge"),
    assertNonEmpty(challenge.paymentId, "invalid_challenge"),
    IF challenge.asset.kind = "IOU"
      THEN FirstFailure(<<assertNonEmpty(challenge.asset.currency, "invalid_challenge"),
                          assertNonEmpty(challenge.asset.issuer, "invalid_challenge")>>)
      ELSE Pass,
    IF challenge.memo.format # "x402" THEN "invalid_challenge" ELSE Pass,
    IF challenge.memo.paymentId # challenge.paymentId THEN "invalid_challenge" ELSE Pass,
    assertFutureOrPresentISODate(challenge.expiresAt, "invalid_challenge")>>)

\* validateChallengeNotExpired throwing at the instant of expiry as well
validateChallengeNotExpired_AtExpiry(challenge, now) ==
  IF ~challenge.expiresAt.valid THEN "invalid_challenge"
  ELSE IF now >= challenge.expiresAt.time THEN "expired_challenge"
  ELSE Pass

\* validateChallengeNotExpired(challenge, now)
validateChallengeNotExpired(challenge, now) ==
  IF ~challenge.expiresAt.valid THEN "invalid_challenge"
  ELSE IF now > challenge.expiresAt.time THEN "expired_challenge"
  ELSE Pass

(***************************************************************************)
(* JSON values read field by field: [type, val], type "absent" for a       *)
(* missing member.                                                         *)
(***************************************************************************)
JStr(s) == [type |-> "string", val |-> s]

JNum(n) == [type |-> "number", val |-> n]

JAbsent == [type |-> "absent", val |-> ""]

(***************************************************************************)
(* A receipt header value is [form, text].  text is the text its base64    *)
(* characters stand for, held as what JSON.parse makes of it: parse is     *)
(* "error" (the parse throws), "nonobject" (a number, a string, null) or   *)
(* "object", and then its three members.  form is how the value is         *)
(* written: "standard" (the RFC 4648 alphabet, padded, nothing else),      *)
(* "spaced" (the same with white space among the characters), "urlsafe"    *)
(* (the - and _ alphabet, unpadded), "other" (no base64 of any text).      *)
(***************************************************************************)
NoReceipt == [network |-> "", txHash |-> "", paymentId |-> ""]

Base64Forms == {"standard", "spaced", "urlsafe"}

\* JSON.stringify(receipt)
ReceiptJson(receipt) ==
  [parse |-> "object",
   network |-> JStr(receipt.network),
   txHash |-> JStr(receipt.txHash),
   paymentId |-> JStr(receipt.paymentId)]

\* a text JSON.parse throws on
MalformedJson == [parse |-> "error", network |-> JAbsent, txHash |-> JAbsent,
                  paymentId |-> JAbsent]

\* utf8ToBase64(input): Buffer.from(input, "utf8").toString("base64")
utf8ToBase64(input) == [form |-> "standard", text |-> input]

\* base64ToUtf8(input): Buffer.from(input, "base64").toString("utf8") never
\* throws; it skips white space, reads both alphabets and needs no padding,
\* and yields bytes that are no JSON text for a value of another form
base64ToUtf8(input) ==
  IF input.form \in Base64Forms THEN input.text ELSE MalformedJson

\* encodeReceiptHeader(receipt): [err, header]
encodeReceiptHeader(receipt) ==
  LET err == FirstFailure(<<assertSupportedNetwork(receipt.network),
                            assertNonEmpty(receipt.txHash, "invalid_receipt"),
                            assertNonEmpty(receipt.paymentId, "invalid_receipt")>>)
  IN  [err |-> err,
       header |-> utf8ToBase64(ReceiptJson(receipt))]

\* decodeReceiptHeader(receiptHeaderValue): [err, receipt]
decodeReceiptHeader(receiptHeaderValue) ==
  LET maybe == base64ToUtf8(receiptHeaderValue)
      err ==
        IF maybe.parse = "error" THEN "invalid_receipt"
        ELSE IF maybe.parse # "object" THEN "invalid_receipt"
        ELSE IF maybe.network.type # "string" THEN "invalid_receipt"
        ELSE IF ~isSupportedNetwork(maybe.network.val) THEN "invalid_receipt"
        ELSE IF maybe.txHash.type # "string" \/ maybe.txHash.val = ""
          THEN "invalid_receipt"
        ELSE IF maybe.paymentId.type # "string" \/ maybe.paymentId.val = ""
          THEN "invalid_receipt"
        ELSE Pass
  IN  [err |-> err,
       receipt |-> IF err = Pass
                     THEN [network |-> maybe.network.val,
                           txHash |-> maybe.txHash.val,
                           paymentId |-> maybe.paymentId.val]
                     ELSE NoReceipt]

(***************************************************************************)
(* Memo texts.  A decoded text is a record of one shape: lit names a       *)
(* literal string ("x402", "application/json", ...); lit = "json" is the   *)
(* JSON serialization of an object with the members v, t, paymentId and    *)
(* sessionId.                                                              *)
(***************************************************************************)
Lit(s) == [lit |-> s, v |-> JAbsent, t |-> JAbsent, paymentId |-> JAbsent,
           sessionId |-> JAbsent]

\* JSON.stringify({v, t, paymentId, sessionId})
JsonText(v, t, paymentId, sessionId) ==
  [lit |-> "json", v |-> v, t |-> t, paymentId |-> paymentId, sessionId |-> sessionId]

\* the literals that are JSON texts of a value that is no object: reading a
\* member of a number gives undefined, reading a member of null throws
JsonScalars == {"1"}

\* JSON.parse(text) followed by the reads of its members: threw, or the members
JsonParse(text) ==
  IF text.lit = "json"
    THEN [threw |-> FALSE, v |-> text.v, t |-> text.t, paymentId |-> text.paymentId]
  ELSE IF text.lit \in JsonScalars
    THEN [threw |-> FALSE, v |-> JAbsent, t |-> JAbsent, paymentId |-> JAbsent]
  ELSE [threw |-> TRUE, v |-> JAbsent, t |-> JAbsent, paymentId |-> JAbsent]

(***************************************************************************)
(* A memo field as it stands in the transaction (MemoType, MemoFormat,     *)
(* MemoData) is [form, text, nan]:                                         *)
(*   "absent"  undefined                                                   *)
(*   "empty"   ""                                                          *)
(*   "hex"     an even number of hex digits, the UTF-8 bytes of text       *)
(*   "oddhex"  an odd number of hex digits, the string itself being text   *)
(*   "plain"   an even-length string with a character that is no hex       *)
(*             digit, the string itself being text; nan tells whether some *)
(*             two-character chunk of it begins with such a character      *)
(*             (Number.parseInt of the chunk is NaN)                       *)
(*   "oddplain" the same, of odd length                                    *)
(***************************************************************************)
AbsentField == [form |-> "absent", text |-> Lit(""), nan |-> FALSE]

EmptyField == [form |-> "empty", text |-> Lit(""), nan |-> FALSE]

PlainField(s, nan) == [form |-> "plain", text |-> Lit(s), nan |-> nan]

\* what TextDecoder makes of bytes that came from no UTF-8 text of the model
Garbled == Lit("<garbled>")

\* utf8ToHex(input)
utf8ToHex(input) ==
  IF input = Lit("") THEN EmptyField
  ELSE [form |-> "hex", text |-> input, nan |-> FALSE]

\* hexToUtf8(hex): [threw, text]
hexToUtf8(hex) ==
  IF hex.form \in {"oddhex", "oddplain"}
    THEN [threw |-> TRUE, text |-> Lit("")]      \* new Uint8Array(n + 0.5)
  ELSE IF hex.form = "plain" /\ hex.nan
    THEN [threw |-> TRUE, text |-> Lit("")]      \* throw new Error("Invalid hex")
  ELSE IF hex.form = "plain"
    THEN [threw |-> FALSE, text |-> Garbled]
  ELSE IF hex.form = "hex"
    THEN [threw |-> FALSE, text |-> hex.text]
  ELSE [threw |-> FALSE, text |-> Lit("")]

\* decodeMemoField(value): [threw, text]
decodeMemoField(value) ==
  IF value.form \in {"absent", "empty"} THEN [threw |-> FALSE, text |-> Lit("")]
  ELSE IF value.form = "hex"
    THEN [threw |-> hexToUtf8(value).threw, text |-> hexToUtf8(value).text]
  ELSE [threw |-> FALSE, text |-> value.text]

\* a memo container: [present, MemoType, MemoFormat, MemoData], present FALSE
\* for a container without a Memo member
NoMemo == [present |-> FALSE, MemoType |-> AbsentField, MemoFormat |-> AbsentField,
           MemoData |-> AbsentField]

\* buildXrplMemo(challenge)
buildXrplMemo(challenge) ==
  [present |-> TRUE,
   MemoType |-> utf8ToHex(Lit("x402")),
   MemoFormat |-> utf8ToHex(Lit("application/json")),
   MemoData |-> utf8ToHex(JsonText(JNum("1"), JStr("x402"), JStr(challenge.paymentId),
                                   challenge.memo.sessionId))]

\* the loop body of assertMemoMatches without the comparison of paymentId
MemoEntry_AnyPaymentId(memo, paymentId) ==
  LET memoType == decodeMemoField(memo.MemoType)
      memoFormat == decodeMemoField(memo.MemoFormat)
      memoDataHex == memo.MemoData
      memoData == hexToUtf8(memoDataHex)
      parsed == JsonParse(memoData.text)
  IN  IF ~memo.present THEN "continue"
      ELSE IF memoType.threw \/ memoFormat.threw THEN "throw"
      ELSE IF memoDataHex.form \in {"absent", "empty"} THEN "continue"
      ELSE IF memoData.threw THEN "throw"
      ELSE IF \/ memoType.text # Lit("x402")
              \/ memoFormat.text # Lit("application/json")
              \/ memoData.text = Lit("")
        THEN "continue"
      ELSE IF parsed.threw THEN "throw"
      ELSE IF /\ parsed.v = JNum("1")
              /\ parsed.t = JStr("x402")
              /\ parsed.paymentId.type = "string"
        THEN "return"
      ELSE "continue"

\* one turn of the loop of assertMemoMatches: "continue", "return" or "throw"
MemoEntry(memo, paymentId) ==
  LET memoType == decodeMemoField(memo.MemoType)
      memoFormat == decodeMemoField(memo.MemoFormat)
      memoDataHex == memo.MemoData
      memoData == hexToUtf8(memoDataHex)
      parsed == JsonParse(memoData.text)
  IN  IF ~memo.present THEN "continue"
      ELSE IF memoType.threw \/ memoFormat.threw THEN "throw"
      ELSE IF memoDataHex.form \in {"absent", "empty"} THEN "continue"
      ELSE IF memoData.threw THEN "throw"
      ELSE IF \/ memoType.text # Lit("x402")
              \/ memoFormat.text # Lit("application/json")
              \/ memoData.text = Lit("")
        THEN "continue"
      ELSE IF parsed.threw THEN "throw"
      ELSE IF /\ parsed.v = JNum("1")
              /\ parsed.t = JStr("x402")
              /\ parsed.paymentId.type = "string"
              /\ parsed.paymentId.val = paymentId
        THEN "return"
      ELSE "continue"

\* the loop of assertMemoMatches over the entries from the first on
RECURSIVE MemoScan(_, _)
MemoScan(list, paymentId) ==
  IF list = <<>> THEN "invalid_memo"
  ELSE IF MemoEntry(Head(list), paymentId) = "return" THEN Pass
  ELSE IF MemoEntry(Head(list), paymentId) = "throw" THEN "invalid_memo"
  ELSE MemoScan(Tail(list), paymentId)

\* assertMemoMatches(memos, paymentId); memos is [present, list]
assertMemoMatches(memos, paymentId) ==
  IF ~memos.present \/ Len(memos.list) = 0 THEN "invalid_memo"
  ELSE MemoScan(memos.list, paymentId)

(***************************************************************************)
(* Transaction amounts: [kind, drops, currency, issuer, value], kind being *)
(* "undefined", "string" (drops holds the string) or "object" (an issued   *)
(* amount, its three members strings).                                     *)
(***************************************************************************)
NoAmount == [kind |-> "undefined", drops |-> <<>>, currency |-> "", issuer |-> "",
             value |-> <<>>]

DropsAmount(s) == [kind |-> "string", drops |-> s, currency |-> "", issuer |-> "",
                   value |-> <<>>]

IssuedAmount(currency, issuer, value) ==
  [kind |-> "object", drops |-> <<>>, currency |-> currency, issuer |-> issuer,
   value |-> value]

\* assertAmountAndAssetMatch without the comparison of the issuer
assertAmountAndAssetMatch_IssuerUnchecked(challenge, txAmount) ==
  LET expected == challenge.amount
      expectedDrops == xrpToDrops(expected)
  IN  IF challenge.asset.kind = "XRP"
        THEN IF txAmount.kind # "string" THEN "invalid_asset"
             ELSE IF expectedDrops.err # Pass THEN expectedDrops.err
             ELSE IF txAmount.drops # expectedDrops.value THEN "invalid_amount"
             ELSE Pass
      ELSE IF txAmount.kind # "object" THEN "invalid_asset"
      ELSE IF txAmount.currency # challenge.asset.currency THEN "invalid_asset"
      ELSE IF txAmount.value # expected THEN "invalid_amount"
      ELSE Pass

\* assertAmountAndAssetMatch comparing the XRP amount by its number of digits
assertAmountAndAssetMatch_SameLength(challenge, txAmount) ==
  LET expected == challenge.amount
      expectedDrops == xrpToDrops(expected)
  IN  IF challenge.asset.kind = "XRP"
        THEN IF txAmount.kind # "string" THEN "invalid_asset"
             ELSE IF expectedDrops.err # Pass THEN expectedDrops.err
             ELSE IF Len(txAmount.drops) # Len(expectedDrops.value) THEN "invalid_amount"
             ELSE Pass
      ELSE IF txAmount.kind # "object" THEN "invalid_asset"
      ELSE IF \/ txAmount.currency # challenge.asset.currency
              \/ txAmount.issuer # challenge.asset.issuer
        THEN "invalid_asset"
      ELSE IF txAmount.value # expected THEN "invalid_amount"
      ELSE Pass

\* assertAmountAndAssetMatch(challenge, txAmount)
assertAmountAndAssetMatch(challenge, txAmount) ==
  LET expected == challenge.amount
      expectedDrops == xrpToDrops(expected)
  IN  IF challenge.asset.kind = "XRP"
        THEN IF txAmount.kind # "string" THEN "invalid_asset"
             ELSE IF expectedDrops.err # Pass THEN expectedDrops.err
             ELSE IF txAmount.drops # expectedDrops.value THEN "invalid_amount"
             ELSE Pass
      ELSE IF txAmount.kind # "object" THEN "invalid_asset"
      ELSE IF \/ txAmount.currency # challenge.asset.currency
              \/ txAmount.issuer # challenge.asset.issuer
        THEN "invalid_asset"
      ELSE IF txAmount.value # expected THEN "invalid_amount"
      ELSE Pass

(***************************************************************************)
(* Ledger transaction records (XrplPaymentTransaction).  Account and       *)
(* Destination are strings or Undefined; DestinationTag and Flags are      *)
(* [present, value]; Memos is [present, list]; SendMax, Paths and          *)
(* DeliverMin, which the code only compares with undefined, are Booleans   *)
(* telling whether the member is present.                                  *)
(***************************************************************************)
Absent == [present |-> FALSE, value |-> 0]

Present(n) == [present |-> TRUE, value |-> n]

\* the flag test as an equality with the flag
HasPartialPaymentBit_ExactFlag(x) == x = PARTIAL_PAYMENT_FLAG

\* (x & PARTIAL_PAYMENT_FLAG) !== 0, for a non-negative 32-bit x
HasPartialPaymentBit(x) == (x \div PARTIAL_PAYMENT_FLAG) % 2 = 1

\* tx.Flags ?? 0
FlagsOrZero(tx) == IF tx.Flags.present THEN tx.Flags.value ELSE 0

\* what fetchTransaction resolves to or rejects with: [kind, tx], kind being
\* "tx", "null" (resolved to null) or "error" (rejected)
NoTx == [validated |-> FALSE, TransactionType |-> "", Account |-> Undefined,
         Destination |-> Undefined, DestinationTag |-> Absent, Amount |-> NoAmount,
         Flags |-> Absent, Memos |-> [present |-> FALSE, list |-> <<>>],
         SendMax |-> FALSE, Paths |-> FALSE, DeliverMin |-> FALSE]

FetchedTx(tx) == [kind |-> "tx", tx |-> tx]

FetchedNull == [kind |-> "null", tx |-> NoTx]

FetchError == [kind |-> "error", tx |-> NoTx]

NotFetched == [kind |-> "none", tx |-> NoTx]

(***************************************************************************)
(* InMemoryReplayStore: the two maps, total over the keys of the model,    *)
(* Undefined where the Map has no entry.                                   *)
(***************************************************************************)
PaymentIds == {"P1", "P2"}

TxHashes == {"T1", "T2"}

\* Map.get(key)
MapGet(map, key) == IF key \in DOMAIN map THEN map[key] ELSE Undefined

\* getTxHashByPaymentId(paymentId)
getTxHashByPaymentId(p2t, paymentId) == MapGet(p2t, paymentId)

\* getPaymentIdByTxHash(txHash)
getPaymentIdByTxHash(t2p, txHash) == MapGet(t2p, txHash)

\* register without its first check: a paymentId already paired with another
\* txHash is overwritten
register_NoPaymentIdCheck(p2t, t2p, paymentId, txHash) ==
  LET existingPaymentId == MapGet(t2p, txHash)
  IN  IF existingPaymentId # Undefined /\ existingPaymentId # paymentId
        THEN [threw |-> TRUE, p2t |-> p2t, t2p |-> t2p]
      ELSE [threw |-> FALSE,
            p2t |-> [p2t EXCEPT ![paymentId] = txHash],
            t2p |-> [t2p EXCEPT ![txHash] = paymentId]]

\* register that throws on a conflict only after it has written the first map
register_WriteBeforeCheck(p2t, t2p, paymentId, txHash) ==
  LET existingTxHash == MapGet(p2t, paymentId)
      existingPaymentId == MapGet(t2p, txHash)
  IN  IF existingTxHash # Undefined /\ existingTxHash # txHash
        THEN [threw |-> TRUE, p2t |-> p2t, t2p |-> t2p]
      ELSE IF existingPaymentId # Undefined /\ existingPaymentId # paymentId
        THEN [threw |-> TRUE, p2t |-> [p2t EXCEPT ![paymentId] = txHash], t2p |-> t2p]
      ELSE [threw |-> FALSE,
            p2t |-> [p2t EXCEPT ![paymentId] = txHash],
            t2p |-> [t2p EXCEPT ![txHash] = paymentId]]

\* register without its second check: a txHash already paired with another
\* paymentId is overwritten
register_NoTxHashCheck(p2t, t2p, paymentId, txHash) ==
  LET existingTxHash == MapGet(p2t, paymentId)
  IN  IF existingTxHash # Undefined /\ existingTxHash # txHash
        THEN [threw |-> TRUE, p2t |-> p2t, t2p |-> t2p]
      ELSE [threw |-> FALSE,
            p2t |-> [p2t EXCEPT ![paymentId] = txHash],
            t2p |-> [t2p EXCEPT ![txHash] = paymentId]]

\* register without either check: two plain Map.set calls, whatever the maps
\* hold
register_Overwrite(p2t, t2p, paymentId, txHash) ==
  [threw |-> FALSE,
   p2t |-> [p2t EXCEPT ![paymentId] = txHash],
   t2p |-> [t2p EXCEPT ![txHash] = paymentId]]

\* register that, its checks passed, writes paymentIdToTxHash alone
register_OneDirection(p2t, t2p, paymentId, txHash) ==
  LET existingTxHash == MapGet(p2t, paymentId)
      existingPaymentId == MapGet(t2p, txHash)
  IN  IF existingTxHash # Undefined /\ existingTxHash # txHash
        THEN [threw |-> TRUE, p2t |-> p2t, t2p |-> t2p]
      ELSE IF existingPaymentId # Undefined /\ existingPaymentId # paymentId
        THEN [threw |-> TRUE, p2t |-> p2t, t2p |-> t2p]
      ELSE [threw |-> FALSE,
            p2t |-> [p2t EXCEPT ![paymentId] = txHash],
            t2p |-> t2p]

\* register(paymentId, txHash): [threw, p2t, t2p], the maps after the call
register(p2t, t2p, paymentId, txHash) ==
  LET existingTxHash == MapGet(p2t, paymentId)
      existingPaymentId == MapGet(t2p, txHash)
  IN  IF existingTxHash # Undefined /\ existingTxHash # txHash
        THEN [threw |-> TRUE, p2t |-> p2t, t2p |-> t2p]
      ELSE IF existingPaymentId # Undefined /\ existingPaymentId # paymentId
        THEN [threw |-> TRUE, p2t |-> p2t, t2p |-> t2p]
      ELSE [threw |-> FALSE,
            p2t |-> [p2t EXCEPT ![paymentId] = txHash],
            t2p |-> [t2p EXCEPT ![txHash] = paymentId]]

(***************************************************************************)
(* verifySettlement.  The gates are numbered as the steps of the           *)
(* orchestrator: 1 validateChallenge, 2 validateChallengeNotExpired,       *)
(* 3 decodeReceiptHeader, 4 network, 5 paymentId, 6 replay lookup,         *)
(* 7 fetch, 8 validated Payment, 9 Account, 10 Destination, 11 safe mode,  *)
(* 12 amount and asset, 13 memo, 14 register, 15 return.                   *)
(* An outcome is [status, code, gate, idempotent, payerAccount, trace]:    *)
(* status "fail" (code thrown at gate), "ok" or "suspend" (awaiting the    *)
(* fetch); trace lists the collaborators invoked, in order.                *)
(***************************************************************************)
Fail(code, gate, trace) ==
  [status |-> "fail", code |-> code, gate |-> gate, idempotent |-> FALSE,
   payerAccount |-> Undefined, trace |-> trace]

\* the replay lookup without its first check: a paymentId already paired
\* with another txHash goes on to the fetch
ReplayLookup_NoPaymentIdCheck(p2t, t2p, paymentId, txHash) ==
  LET existingTxHash == getTxHashByPaymentId(p2t, paymentId)
      existingPaymentId == getPaymentIdByTxHash(t2p, txHash)
  IN  IF existingPaymentId # Undefined /\ existingPaymentId # paymentId
        THEN Fail("replay_detected", 6, <<"getTxHashByPaymentId", "getPaymentIdByTxHash">>)
      ELSE IF existingTxHash = txHash /\ existingPaymentId = paymentId
        THEN [status |-> "ok", code |-> Pass, gate |-> 6, idempotent |-> TRUE,
              payerAccount |-> Undefined,
              trace |-> <<"getTxHashByPaymentId", "getPaymentIdByTxHash">>]
      ELSE [status |-> "suspend", code |-> Pass, gate |-> 7, idempotent |-> FALSE,
            payerAccount |-> Undefined,
            trace |-> <<"getTxHashByPaymentId", "getPaymentIdByTxHash",
                        "fetchTransaction">>]

\* the replay lookup without its second check: a txHash already paired with
\* another paymentId goes on to the fetch
ReplayLookup_NoTxHashCheck(p2t, t2p, paymentId, txHash) ==
  LET existingTxHash == getTxHashByPaymentId(p2t, paymentId)
      existingPaymentId == getPaymentIdByTxHash(t2p, txHash)
  IN  IF existingTxHash # Undefined /\ existingTxHash # txHash
        THEN Fail("replay_detected", 6, <<"getTxHashByPaymentId">>)
      ELSE IF existingTxHash = txHash /\ existingPaymentId = paymentId
        THEN [status |-> "ok", code |-> Pass, gate |-> 6, idempotent |-> TRUE,
              payerAccount |-> Undefined,
              trace |-> <<"getTxHashByPaymentId", "getPaymentIdByTxHash">>]
      ELSE [status |-> "suspend", code |-> Pass, gate |-> 7, idempotent |-> FALSE,
            payerAccount |-> Undefined,
            trace |-> <<"getTxHashByPaymentId", "getPaymentIdByTxHash",
                        "fetchTransaction">>]

\* the replay lookup without the idempotent return: a registered pair goes on
\* to the fetch like a new one
ReplayLookup_NoIdempotentReturn(p2t, t2p, paymentId, txHash) ==
  LET existingTxHash == getTxHashByPaymentId(p2t, paymentId)
      existingPaymentId == getPaymentIdByTxHash(t2p, txHash)
  IN  IF existingTxHash # Undefined /\ existingTxHash # txHash
        THEN Fail("replay_detected", 6, <<"getTxHashByPaymentId">>)
      ELSE IF existingPaymentId # Undefined /\ existingPaymentId # paymentId
        THEN Fail("replay_detected", 6, <<"getTxHashByPaymentId", "getPaymentIdByTxHash">>)
      ELSE [status |-> "suspend", code |-> Pass, gate |-> 7, idempotent |-> FALSE,
            payerAccount |-> Undefined,
            trace |-> <<"getTxHashByPaymentId", "getPaymentIdByTxHash",
                        "fetchTransaction">>]

\* the replay lookup with the fetch issued first, before the lookups decide
ReplayLookup_SpeculativeFetch(p2t, t2p, paymentId, txHash) ==
  LET existingTxHash == getTxHashByPaymentId(p2t, paymentId)
      existingPaymentId == getPaymentIdByTxHash(t2p, txHash)
  IN  IF existingTxHash # Undefined /\ existingTxHash # txHash
        THEN Fail("replay_detected", 6, <<"fetchTransaction", "getTxHashByPaymentId">>)
      ELSE IF existingPaymentId # Undefined /\ existingPaymentId # paymentId
        THEN Fail("replay_detected", 6,
                  <<"fetchTransaction", "getTxHashByPaymentId", "getPaymentIdByTxHash">>)
      ELSE IF existingTxHash = txHash /\ existingPaymentId = paymentId
        THEN [status |-> "ok", code |-> Pass, gate |-> 6, idempotent |-> TRUE,
              payerAccount |-> Undefined,
              trace |-> <<"fetchTransaction", "getTxHashByPaymentId",
                          "getPaymentIdByTxHash">>]
      ELSE [status |-> "suspend", code |-> Pass, gate |-> 7, idempotent |-> FALSE,
            payerAccount |-> Undefined,
            trace |-> <<"fetchTransaction", "getTxHashByPaymentId",
                        "getPaymentIdByTxHash">>]

\* lines 311-339: the two lookups and what they decide
ReplayLookup(p2t, t2p, paymentId, txHash) ==
  LET existingTxHash == getTxHashByPaymentId(p2t, paymentId)
      existingPaymentId == getPaymentIdByTxHash(t2p, txHash)
  IN  IF existingTxHash # Undefined /\ existingTxHash # txHash
        THEN Fail("replay_detected", 6, <<"getTxHashByPaymentId">>)
      ELSE IF existingPaymentId # Undefined /\ existingPaymentId # paymentId
        THEN Fail("replay_detected", 6, <<"getTxHashByPaymentId", "getPaymentIdByTxHash">>)
      ELSE IF existingTxHash = txHash /\ existingPaymentId = paymentId
        THEN [status |-> "ok", code |-> Pass, gate |-> 6, idempotent |-> TRUE,
              payerAccount |-> Undefined,
              trace |-> <<"getTxHashByPaymentId", "getPaymentIdByTxHash">>]
      ELSE [status |-> "suspend", code |-> Pass, gate |-> 7, idempotent |-> FALSE,
            payerAccount |-> Undefined,
            trace |-> <<"getTxHashByPaymentId", "getPaymentIdByTxHash",
                        "fetchTransaction">>]

\* lines 291-309 without the comparison of receipt.paymentId
Admission_PaymentIdUnchecked(challenge, receiptHeaderValue, now) ==
  LET decoded == decodeReceiptHeader(receiptHeaderValue)
      receipt == decoded.receipt
      failed(code, gate) ==
        [status |-> "fail", code |-> code, gate |-> gate, receipt |-> NoReceipt]
  IN  IF validateChallenge(challenge) # Pass
        THEN failed(validateChallenge(challenge), 1)
      ELSE IF validateChallengeNotExpired(challenge, now) # Pass
        THEN failed(validateChallengeNotExpired(challenge, now), 2)
      ELSE IF decoded.err # Pass THEN failed(decoded.err, 3)
      ELSE IF receipt.network # challenge.network THEN failed("network_mismatch", 4)
      ELSE [status |-> "ok", code |-> Pass, gate |-> 5, receipt |-> receipt]

\* lines 291-309: the checks that read neither the store nor the ledger:
\* [status, code, gate, receipt]
Admission(challenge, receiptHeaderValue, now) ==
  LET decoded == decodeReceiptHeader(receiptHeaderValue)
      receipt == decoded.receipt
      failed(code, gate) ==
        [status |-> "fail", code |-> code, gate |-> gate, receipt |-> NoReceipt]
  IN  IF validateChallenge(challenge) # Pass
        THEN failed(validateChallenge(challenge), 1)
      ELSE IF validateChallengeNotExpired(challenge, now) # Pass
        THEN failed(validateChallengeNotExpired(challenge, now), 2)
      ELSE IF decoded.err # Pass THEN failed(decoded.err, 3)
      ELSE IF receipt.network # challenge.network THEN failed("network_mismatch", 4)
      ELSE IF receipt.paymentId # challenge.paymentId THEN failed("invalid_receipt", 5)
      ELSE [status |-> "ok", code |-> Pass, gate |-> 5, receipt |-> receipt]

\* the check of lines 352-357 without the test of TransactionType
CheckValidatedPayment_TypeUnchecked(tx) ==
  IF ~tx.validated THEN "tx_not_validated" ELSE Pass

\* lines 352-357
CheckValidatedPayment(tx) ==
  IF ~tx.validated \/ tx.TransactionType # "Payment" THEN "tx_not_validated" ELSE Pass

\* the check of lines 358-363 without the trim: an Account of white space passes
CheckAccount_Untrimmed(tx) ==
  IF tx.Account = Undefined \/ tx.Account = "" THEN "invalid_receipt" ELSE Pass

\* lines 358-363
CheckAccount(tx) ==
  IF tx.Account = Undefined \/ tx.Account \in Blank THEN "invalid_receipt" ELSE Pass

\* the check of lines 365-376 with the tag tested for truthiness: tag 0 passes
CheckDestination_TagZeroAllowed(challenge, tx) ==
  IF tx.Destination # challenge.destination THEN "invalid_destination"
  ELSE IF tx.DestinationTag.present /\ tx.DestinationTag.value # 0
    THEN "invalid_destination"
  ELSE Pass

\* lines 365-376
CheckDestination(challenge, tx) ==
  IF tx.Destination # challenge.destination THEN "invalid_destination"
  ELSE IF tx.DestinationTag.present THEN "invalid_destination"
  ELSE Pass

\* lines 378-393
CheckSafeMode(tx) ==
  IF HasPartialPaymentBit(FlagsOrZero(tx)) THEN "invalid_asset"
  ELSE IF tx.Paths \/ tx.SendMax \/ tx.DeliverMin THEN "invalid_asset"
  ELSE Pass

\* the first check of a list, numbered from gate on, that does not pass
RECURSIVE FirstFailing(_, _)
FirstFailing(checks, gate) ==
  IF checks = <<>> THEN [code |-> Pass, gate |-> gate]
  ELSE IF Head(checks) # Pass THEN [code |-> Head(checks), gate |-> gate]
  ELSE FirstFailing(Tail(checks), gate + 1)

\* lines 352-396: the checks of the fetched record, in order: [code, gate]
CheckTransaction(challenge, tx) ==
  FirstFailing(<<CheckValidatedPayment(tx),
                 CheckAccount(tx),
                 CheckDestination(challenge, tx),
                 CheckSafeMode(tx),
                 assertAmountAndAssetMatch(challenge, tx.Amount),
                 assertMemoMatches(tx.Memos, challenge.paymentId)>>, 8)

\* the verdict with tx.Account left out of what a success returns
FetchVerdict_PayerOmitted(challenge, fetched) ==
  LET checked == CheckTransaction(challenge, fetched.tx)
  IN  IF fetched.kind = "error"
        THEN [code |-> "fetch_error", gate |-> 7, payerAccount |-> Undefined]
      ELSE IF fetched.kind = "null"
        THEN [code |-> "tx_not_found", gate |-> 7, payerAccount |-> Undefined]
      ELSE IF checked.code # Pass
        THEN [code |-> checked.code, gate |-> checked.gate, payerAccount |-> Undefined]
      ELSE [code |-> Pass, gate |-> 14, payerAccount |-> Undefined]

\* lines 341-396: what the settled fetch and the checks of its record come to:
\* [code, gate, payerAccount], gate 14 when every check passed
FetchVerdict(challenge, fetched) ==
  LET checked == CheckTransaction(challenge, fetched.tx)
  IN  IF fetched.kind = "error"
        THEN [code |-> "fetch_error", gate |-> 7, payerAccount |-> Undefined]
      ELSE IF fetched.kind = "null"
        THEN [code |-> "tx_not_found", gate |-> 7, payerAccount |-> Undefined]
      ELSE IF checked.code # Pass
        THEN [code |-> checked.code, gate |-> checked.gate, payerAccount |-> Undefined]
      ELSE [code |-> Pass, gate |-> 14, payerAccount |-> fetched.tx.Account]

\* verifySettlement with the registration moved ahead of the transaction checks
VerifyAfterFetch_RegisterBeforeChecks(verdict, paymentId, txHash, p2t, t2p) ==
  LET reg == register(p2t, t2p, paymentId, txHash)
      failed(code, gate, trace) ==
        [status |-> "fail", code |-> code, gate |-> gate, idempotent |-> FALSE,
         payerAccount |-> Undefined, trace |-> trace, p2t |-> reg.p2t, t2p |-> reg.t2p]
  IN  IF reg.threw THEN failed("replay_detected", 14, <<"register">>)
      ELSE IF verdict.code # Pass THEN failed(verdict.code, verdict.gate, <<"register">>)
      ELSE [status |-> "ok", code |-> Pass, gate |-> 15, idempotent |-> FALSE,
            payerAccount |-> verdict.payerAccount, trace |-> <<"register">>,
            p2t |-> reg.p2t, t2p |-> reg.t2p]

\* verifySettlement with the throw of register caught and dropped: the call
\* returns success whether or not its pair was registered
VerifyAfterFetch_RegisterErrorSwallowed(verdict, paymentId, txHash, p2t, t2p) ==
  LET reg == register(p2t, t2p, paymentId, txHash)
      failed(code, gate, trace) ==
        [status |-> "fail", code |-> code, gate |-> gate, idempotent |-> FALSE,
         payerAccount |-> Undefined, trace |-> trace, p2t |-> p2t, t2p |-> t2p]
  IN  IF verdict.code # Pass THEN failed(verdict.code, verdict.gate, <<>>)
      ELSE [status |-> "ok", code |-> Pass, gate |-> 15, idempotent |-> FALSE,
            payerAccount |-> verdict.payerAccount, trace |-> <<"register">>,
            p2t |-> reg.p2t, t2p |-> reg.t2p]

\* lines 341-405: verifySettlement from the await on, given the verdict:
\* [status, code, gate, idempotent, payerAccount, trace, p2t, t2p]
VerifyAfterFetch(verdict, paymentId, txHash, p2t, t2p) ==
  LET reg == register(p2t, t2p, paymentId, txHash)
      failed(code, gate, trace) ==
        [status |-> "fail", code |-> code, gate |-> gate, idempotent |-> FALSE,
         payerAccount |-> Undefined, trace |-> trace, p2t |-> p2t, t2p |-> t2p]
  IN  IF verdict.code # Pass THEN failed(verdict.code, verdict.gate, <<>>)
      ELSE IF reg.threw THEN failed("replay_detected", 14, <<"register">>)
      ELSE [status |-> "ok", code |-> Pass, gate |-> 15, idempotent |-> FALSE,
            payerAccount |-> verdict.payerAccount, trace |-> <<"register">>,
            p2t |-> reg.p2t, t2p |-> reg.t2p]

(***************************************************************************)
(* The objects the callers pass, each under a name: the state holds the    *)
(* names, as the program holds references.                                 *)
(***************************************************************************)
Amount2_5 == <<"2", ".", "5">>

Amount10_25 == <<"1", "0", ".", "2", "5">>

\* the time the challenges of the model expire at
ExpiresAt == 1

\* baseChallenge of the conformance tests: a challenge made by createChallenge
BaseChallenge(paymentId, kind, network) ==
  createChallenge(
    [network |-> network,
     amount |-> IF kind = "XRP" THEN Amount2_5 ELSE Amount10_25,
     asset |-> IF kind = "XRP" THEN XrpAsset ELSE IouAsset("RLUSD", "rISSUER"),
     destination |-> "rDEST",
     expiresAt |-> IsoUtc(ExpiresAt),
     paymentId |-> paymentId,
     sessionId |-> JAbsent]).challenge

\* makeTx of the conformance tests: the record that settles the challenge
MakeTx(challenge) ==
  [validated |-> TRUE,
   TransactionType |-> "Payment",
   Account |-> "rPAYER",
   Destination |-> challenge.destination,
   DestinationTag |-> Absent,
   Amount |-> IF challenge.asset.kind = "XRP"
                THEN DropsAmount(xrpToDrops(challenge.amount).value)
                ELSE IssuedAmount(challenge.asset.currency, challenge.asset.issuer,
                                  challenge.amount),
   Flags |-> Absent,
   Memos |-> [present |-> TRUE, list |-> <<buildXrplMemo(challenge)>>],
   SendMax |-> FALSE, Paths |-> FALSE, DeliverMin |-> FALSE]

XrpP1 == BaseChallenge("P1", "XRP", "xrpl:testnet")

XrpP2 == BaseChallenge("P2", "XRP", "xrpl:testnet")

\* the decimal numeral of n (String(n) of a non-negative integer)
RECURSIVE NatToDigits(_)
NatToDigits(n) ==
  LET digit == [d \in 0..9 |-> CHOOSE c \in Digits : c = ToString(d)]
  IN  IF n < 10 THEN <<digit[n]>> ELSE Append(NatToDigits(n \div 10), digit[n % 10])

\* amounts of XRP challenges, by name: 2.5 and 10.25 of the tests, one drop,
\* one XRP, zero, 2.5 written with a trailing zero, and an amount of seven
\* decimal places, finer than a drop
XrpAmountOf ==
  [a2_5 |-> Amount2_5,
   a2_50 |-> <<"2", ".", "5", "0">>,
   a10_25 |-> Amount10_25,
   a0_000001 |-> <<"0", ".", "0", "0", "0", "0", "0", "1">>,
   a1 |-> <<"1">>,
   a0 |-> <<"0">>,
   a2_5000001 |-> <<"2", ".", "5", "0", "0", "0", "0", "0", "0", "1">>]

\* baseChallenge({ amount }) of the tests, for each of these amounts
AmountChallengeOf ==
  [a \in DOMAIN XrpAmountOf |-> [XrpP1 EXCEPT !.amount = XrpAmountOf[a]]]

IouP1 == BaseChallenge("P1", "IOU", "xrpl:testnet")

Amount10_250 == <<"1", "0", ".", "2", "5", "0">>

\* IOU challenges by name: baseChallenge of the tests for 10.25 RLUSD, and
\* challenges handed to verifySettlement with the amount written otherwise
IouChallengeOf ==
  [iouP1 |-> IouP1,
   iou10_250 |-> [IouP1 EXCEPT !.amount = Amount10_250],
   iou10_0 |-> [IouP1 EXCEPT !.amount = <<"1", "0", ".", "0">>],
   iou10 |-> [IouP1 EXCEPT !.amount = <<"1", "0">>]]

\* timestamp strings that are not ISO-8601 UTC instants: one new Date()
\* cannot read, a date without a time, a time with an offset in place of Z
NotADate == [valid |-> FALSE, time |-> 0, hasT |-> TRUE, endsZ |-> TRUE]

DateOnly == [valid |-> TRUE, time |-> ExpiresAt, hasT |-> FALSE, endsZ |-> FALSE]

OffsetTime == [valid |-> TRUE, time |-> ExpiresAt, hasT |-> TRUE, endsZ |-> FALSE]

\* challenges handed to verifySettlement, by name: baseChallenge of the tests
\* on the other networks and with a later expiry, and baseChallenge with one
\* field (or two) overridden by a value validateChallenge reads
AdmitChallengeOf ==
  [mainP1 |-> [XrpP1 EXCEPT !.network = "xrpl:1"],
   devP1 |-> [XrpP1 EXCEPT !.network = "xrpl:devnet"],
   laterP1 |-> [XrpP1 EXCEPT !.expiresAt = IsoUtc(ExpiresAt + 1)],
   unknownNet |-> [XrpP1 EXCEPT !.network = "xrpl:unknown"],
   emptyNet |-> [XrpP1 EXCEPT !.network = ""],
   unknownNetV1 |-> [XrpP1 EXCEPT !.network = "xrpl:unknown", !.version = "1"],
   amountLeadingZero |-> [XrpP1 EXCEPT !.amount = <<"0", "2", ".", "5">>],
   amountNoFraction |-> [XrpP1 EXCEPT !.amount = <<"2", ".">>],
   amountEmpty |-> [XrpP1 EXCEPT !.amount = <<>>],
   amountNegative |-> [XrpP1 EXCEPT !.amount = <<"-", "1">>],
   destEmpty |-> [XrpP1 EXCEPT !.destination = ""],
   destBlank |-> [XrpP1 EXCEPT !.destination = " "],
   pidEmpty |-> [XrpP1 EXCEPT !.paymentId = "", !.memo.paymentId = ""],
   pidBlank |-> [XrpP1 EXCEPT !.paymentId = " ", !.memo.paymentId = " "],
   iouNoCurrency |-> [IouP1 EXCEPT !.asset.currency = ""],
   iouBlankIssuer |-> [IouP1 EXCEPT !.asset.issuer = " "],
   memoFormat |-> [XrpP1 EXCEPT !.memo.format = "other"],
   memoPaymentId |-> [XrpP1 EXCEPT !.memo.paymentId = "P2"],
   expiresNotADate |-> [XrpP1 EXCEPT !.expiresAt = NotADate],
   expiresDateOnly |-> [XrpP1 EXCEPT !.expiresAt = DateOnly],
   expiresOffset |-> [XrpP1 EXCEPT !.expiresAt = OffsetTime],
   v1Amount |-> [XrpP1 EXCEPT !.version = "1", !.amount = <<"2", ".">>]]

\* a challenge for P1 that names another destination
RepeatChallengeOf ==
  [otherDestP1 |-> [XrpP1 EXCEPT !.destination = "rOTHER"]]

\* the challenges by name
ChallengeOf ==
  [xrpP1 |-> XrpP1,
   xrpP2 |-> XrpP2,
   v1P1 |-> [XrpP1 EXCEPT !.version = "1"]]
    @@ AmountChallengeOf @@ IouChallengeOf @@ AdmitChallengeOf
    @@ RepeatChallengeOf

\* "not-base64" of the conformance tests
MalformedHeader == [form |-> "other", text |-> MalformedJson]

HeaderFor(network, txHash, paymentId) ==
  encodeReceiptHeader([network |-> network, txHash |-> txHash,
                       paymentId |-> paymentId]).header

\* the receipt header values by name
HeaderOf ==
  [t1p1 |-> HeaderFor("xrpl:testnet", "T1", "P1"),
   t1p2 |-> HeaderFor("xrpl:testnet", "T1", "P2"),
   t2p1 |-> HeaderFor("xrpl:testnet", "T2", "P1"),
   t2p2 |-> HeaderFor("xrpl:testnet", "T2", "P2"),
   devT1p1 |-> HeaderFor("xrpl:devnet", "T1", "P1"),
   mainT1p1 |-> HeaderFor("xrpl:1", "T1", "P1"),
   mainT1p2 |-> HeaderFor("xrpl:1", "T1", "P2"),
   unknownT1p1 |-> utf8ToBase64(ReceiptJson([network |-> "xrpl:unknown",
                                             txHash |-> "T1", paymentId |-> "P1"])),
   malformed |-> MalformedHeader]

Drops2500001 == <<"2", "5", "0", "0", "0", "0", "1">>

\* Amount members of ledger records, by name: drops strings around the
\* amounts above, a drops string with a leading zero, a decimal string, an
\* issued amount and a missing member
TxAmountOf ==
  [d0 |-> DropsAmount(NatToDigits(0)),
   d1 |-> DropsAmount(NatToDigits(1)),
   d2 |-> DropsAmount(NatToDigits(2)),
   d999999 |-> DropsAmount(NatToDigits(999999)),
   d1000000 |-> DropsAmount(NatToDigits(1000000)),
   d1000001 |-> DropsAmount(NatToDigits(1000001)),
   d2499999 |-> DropsAmount(NatToDigits(2499999)),
   d2500000 |-> DropsAmount(NatToDigits(2500000)),
   d2500001 |-> DropsAmount(Drops2500001),
   d10249999 |-> DropsAmount(NatToDigits(10249999)),
   d10250000 |-> DropsAmount(NatToDigits(10250000)),
   d10250001 |-> DropsAmount(NatToDigits(10250001)),
   d02500000 |-> DropsAmount(<<"0">> \o NatToDigits(2500000)),
   s2_5 |-> DropsAmount(Amount2_5),
   issued |-> IssuedAmount("XRP", "rISSUER", Amount2_5),
   missing |-> NoAmount]

\* makeTx({ Amount }) of the tests, for each of these Amount members
AmountTxOf ==
  [a \in DOMAIN TxAmountOf |->
     FetchedTx([MakeTx(XrpP1) EXCEPT !.Amount = TxAmountOf[a]])]

\* records that do not reach the amount step, or fail after it, whatever
\* their Amount: another destination, the partial-payment flag, another memo
OtherTxOf ==
  [otherDest |-> FetchedTx([MakeTx(XrpP1) EXCEPT !.Destination = "rOTHER"]),
   partial |-> FetchedTx([MakeTx(XrpP1) EXCEPT
                            !.Flags = Present(PARTIAL_PAYMENT_FLAG)]),
   memoP2 |-> FetchedTx([MakeTx(XrpP1) EXCEPT !.Memos = MakeTx(XrpP2).Memos])]

\* what a call of fetchTransaction may come back with, by name
FetchOf ==
  [txP1 |-> FetchedTx(MakeTx(XrpP1)),
   txP2 |-> FetchedTx(MakeTx(XrpP2)),
   txP1plus1 |-> FetchedTx([MakeTx(XrpP1) EXCEPT !.Amount = DropsAmount(Drops2500001)]),
   null |-> FetchedNull,
   error |-> FetchError,
   none |-> NotFetched] @@ AmountTxOf @@ OtherTxOf

\* the values of params.now
Nows == {ExpiresAt, ExpiresAt + 1}

\* the arguments of the calls under Spec and SpecVerify
Challenges == {"xrpP1", "xrpP2", "v1P1"}

Headers == {"t1p1", "t1p2", "t2p1", "t2p2", "devT1p1", "malformed"}

Fetches == {"txP1", "txP2", "txP1plus1", "null", "error"}

\* the arguments of the calls under SpecAmount
AmountChallenges == DOMAIN AmountChallengeOf

AmountFetches == DOMAIN AmountTxOf \cup DOMAIN OtherTxOf \cup {"null"}

\* the arguments of the calls under SpecAdmit
AdmitChallenges == DOMAIN AdmitChallengeOf \cup {"xrpP1", "xrpP2", "v1P1", "iouP1"}

AdmitHeaders == {"t1p1", "t1p2", "t2p1", "devT1p1", "mainT1p1", "mainT1p2", "malformed"}

AdmitFetches == {"txP1", "null"}

\* Admission and FetchVerdict of the named objects, computed once
AdmissionOf ==
  [c \in DOMAIN ChallengeOf, h \in DOMAIN HeaderOf, now \in Nows |->
     Admission(ChallengeOf[c], HeaderOf[h], now)]

VerdictOf ==
  [c \in DOMAIN ChallengeOf, f \in DOMAIN FetchOf |->
     FetchVerdict(ChallengeOf[c], FetchOf[f])]

(***************************************************************************)
(* State.  calls[c] is a verifySettlement call suspended at the await, or  *)
(* Idle; last is the operation that returned last, with its arguments and  *)
(* its result; succeeded is the set of receipts verifySettlement has       *)
(* returned success for.  seen is succeeded as it was when the call began, *)
(* trace the collaborators the call has invoked so far; first tells that   *)
(* the call returned success and none had for its pair before.             *)
(***************************************************************************)
Idle == [pc |-> "idle", challenge |-> "", header |-> "", now |-> 0,
         receipt |-> NoReceipt, seen |-> {}, trace |-> <<>>]

NoOperation ==
  [op |-> "none", call |-> 0, challenge |-> "", header |-> "", now |-> 0,
   receipt |-> NoReceipt, seen |-> {}, fetched |-> "none",
   status |-> "none", code |-> Pass, gate |-> 0, idempotent |-> FALSE,
   payerAccount |-> Undefined, trace |-> <<>>, first |-> FALSE]

EmptyMap(keys) == [k \in keys |-> Undefined]

Init ==
  /\ paymentIdToTxHash = EmptyMap(PaymentIds)
  /\ txHashToPaymentId = EmptyMap(TxHashes)
  /\ calls = [c \in Calls |-> Idle]
  /\ last = NoOperation
  /\ succeeded = {}

\* the pair of a receipt
PairOf(receipt) == <<receipt.paymentId, receipt.txHash>>

\* some verifySettlement call has returned success for the pair of the receipt
Succeeded(receipt) == \E r \in succeeded : PairOf(r) = PairOf(receipt)

\* lines 288-341: verifySettlement from its call to its return or to the await
VerifyBeforeFetch(admitted, paymentId, p2t, t2p) ==
  IF admitted.status = "fail" THEN Fail(admitted.code, admitted.gate, <<>>)
  ELSE ReplayLookup(p2t, t2p, paymentId, admitted.receipt.txHash)

\* a verifySettlement call begins, on the lowest free slot, and runs to its
\* return or to the await
Start(c, challenge, header, now) ==
  \E admitted \in {AdmissionOf[challenge, header, now]} :
  \E out \in {VerifyBeforeFetch(admitted, ChallengeOf[challenge].paymentId,
                                paymentIdToTxHash, txHashToPaymentId)} :
      /\ calls[c].pc = "idle"
      /\ \A d \in Calls : d < c => calls[d].pc # "idle"
      /\ IF out.status = "suspend"
           THEN /\ calls' = [calls EXCEPT ![c] =
                      [pc |-> "fetch", challenge |-> challenge, header |-> header,
                       now |-> now, receipt |-> admitted.receipt, seen |-> succeeded,
                       trace |-> out.trace]]
                /\ UNCHANGED <<last, succeeded>>
           ELSE /\ last' = [op |-> "verify", call |-> c, challenge |-> challenge,
                            header |-> header, now |-> now,
                            receipt |-> IF out.status = "ok" THEN admitted.receipt
                                        ELSE NoReceipt,
                            seen |-> succeeded, fetched |-> "none",
                            status |-> out.status, code |-> out.code, gate |-> out.gate,
                            idempotent |-> out.idempotent,
                            payerAccount |-> out.payerAccount, trace |-> out.trace,
                            first |-> out.status = "ok"
                                        /\ ~Succeeded(admitted.receipt)]
                /\ succeeded' = IF out.status = "ok"
                                  THEN succeeded \cup {admitted.receipt}
                                  ELSE succeeded
                /\ UNCHANGED calls
      /\ UNCHANGED <<paymentIdToTxHash, txHashToPaymentId>>

\* the awaited fetchTransaction settles and the call runs to its return
Resume(c, fetched) ==
  \E call \in {calls[c]} :
      /\ call.pc = "fetch"
      /\ \E out \in {VerifyAfterFetch(VerdictOf[call.challenge, fetched],
                                      ChallengeOf[call.challenge].paymentId,
                                      call.receipt.txHash,
                                      paymentIdToTxHash, txHashToPaymentId)} :
           /\ paymentIdToTxHash' = out.p2t
           /\ txHashToPaymentId' = out.t2p
           /\ calls' = [calls EXCEPT ![c] = Idle]
           /\ last' = [op |-> "verify", call |-> c, challenge |-> call.challenge,
                       header |-> call.header, now |-> call.now,
                       receipt |-> IF out.status = "ok" THEN call.receipt ELSE NoReceipt,
                       seen |-> call.seen, fetched |-> fetched,
                       status |-> out.status, code |-> out.code, gate |-> out.gate,
                       idempotent |-> out.idempotent,
                       payerAccount |-> out.payerAccount,
                       trace |-> call.trace \o out.trace,
                       first |-> out.status = "ok" /\ ~Succeeded(call.receipt)]
           /\ succeeded' = IF out.status = "ok" THEN succeeded \cup {call.receipt}
                           ELSE succeeded

\* a caller other than verifySettlement calls replayStore.register
Register(paymentId, txHash) ==
  \E reg \in {register(paymentIdToTxHash, txHashToPaymentId, paymentId, txHash)} :
      /\ paymentIdToTxHash' = reg.p2t
      /\ txHashToPaymentId' = reg.t2p
      /\ last' = [NoOperation EXCEPT
                    !.op = "register",
                    !.receipt = [network |-> "", txHash |-> txHash,
                                 paymentId |-> paymentId],
                    !.status = IF reg.threw THEN "fail" ELSE "ok",
                    !.code = IF reg.threw THEN "replay_detected" ELSE Pass,
                    !.trace = <<"register">>]
      /\ UNCHANGED <<calls, succeeded>>

StartCall == \E c \in Calls, challenge \in Challenges, header \in Headers, now \in Nows :
               Start(c, challenge, header, now)

ResumeCall == \E c \in Calls, fetched \in Fetches : Resume(c, fetched)

RegisterCall == \E p \in PaymentIds, t \in TxHashes : Register(p, t)

Next == StartCall \/ ResumeCall \/ RegisterCall

Spec == Init /\ [][Next]_vars

\* the store is written by verifySettlement alone
NextVerify == StartCall \/ ResumeCall

SpecVerify == Init /\ [][NextVerify]_vars

\* verifySettlement calls one after the other, each for the receipt (P1, T1)
\* and an unexpired XRP challenge for P1 of some amount, each fetch coming
\* back with a record of some Amount
StartAmount == \E challenge \in AmountChallenges : Start(1, challenge, "t1p1", ExpiresAt)

ResumeAmount == \E fetched \in AmountFetches : Resume(1, fetched)

NextAmount == StartAmount \/ ResumeAmount

SpecAmount == Init /\ [][NextAmount]_vars

(***************************************************************************)
(* Ledger records given by value: every combination of the members the     *)
(* gates 8-11 read, with a few Amount and Memos members, and the record of  *)
(* makeTx with every Amount and Memos member of a longer list.             *)
(***************************************************************************)
\* Flags members: none, 0, the partial-payment bit alone and among other
\* bits, other bits without it
RecordFlags ==
  {Absent, Present(0), Present(PARTIAL_PAYMENT_FLAG),
   Present(1073741824 + PARTIAL_PAYMENT_FLAG + 65536 + 1),
   Present(1073741824 + 65536)}

\* which of SendMax, Paths, DeliverMin are present: <<SendMax, Paths, DeliverMin>>
RecordPathFields ==
  {<<FALSE, FALSE, FALSE>>, <<TRUE, FALSE, FALSE>>, <<FALSE, TRUE, FALSE>>,
   <<FALSE, FALSE, TRUE>>, <<TRUE, TRUE, TRUE>>}

\* Amount members: drops strings, a decimal string, issued amounts that
\* differ from 10.25 RLUSD of rISSUER in one member, none
RecordAmounts ==
  {DropsAmount(NatToDigits(2500000)), DropsAmount(Drops2500001),
   DropsAmount(Amount10_25), DropsAmount(Amount2_5),
   IssuedAmount("RLUSD", "rISSUER", Amount10_25),
   IssuedAmount("USD", "rISSUER", Amount10_25),
   IssuedAmount("RLUSD", "rOTHER", Amount10_25),
   IssuedAmount("RLUSD", "rISSUER", Amount10_250),
   IssuedAmount("RLUSD", "rISSUER", <<"1", "0", ".", "2", "6">>),
   IssuedAmount("RLUSD", "rISSUER", <<"1", "0", ".", "0">>),
   IssuedAmount("RLUSD", "rISSUER", <<"1", "0">>),
   IssuedAmount("RLUSD", "rISSUER", Amount2_5),
   NoAmount}

\* a memo of type x402 and format application/json carrying the JSON text
X402Memo(text) ==
  [present |-> TRUE,
   MemoType |-> utf8ToHex(Lit("x402")),
   MemoFormat |-> utf8ToHex(Lit("application/json")),
   MemoData |-> utf8ToHex(text)]

\* memo entries: the one buildXrplMemo makes for P1 and for P2; the JSON of
\* P1 with another v, v as a string, another t, a numeric paymentId, no
\* paymentId; the memo of P1 under another type or format, or with type and
\* format as plain text; a container without Memo; a memo without MemoData
MemoP1 == buildXrplMemo(XrpP1)

MemoP2 == buildXrplMemo(XrpP2)

RecordMemoEntries ==
  {MemoP1, MemoP2,
   X402Memo(JsonText(JNum("2"), JStr("x402"), JStr("P1"), JAbsent)),
   X402Memo(JsonText(JStr("1"), JStr("x402"), JStr("P1"), JAbsent)),
   X402Memo(JsonText(JNum("1"), JStr("other"), JStr("P1"), JAbsent)),
   X402Memo(JsonText(JNum("1"), JStr("x402"), JNum("P1"), JAbsent)),
   X402Memo(JsonText(JNum("1"), JStr("x402"), JAbsent, JAbsent)),
   X402Memo(JsonText(JAbsent, JAbsent, JStr("P1"), JAbsent)),
   [MemoP1 EXCEPT !.MemoType = utf8ToHex(Lit("other"))],
   [MemoP1 EXCEPT !.MemoFormat = utf8ToHex(Lit("text/plain"))],
   [MemoP1 EXCEPT !.MemoType = AbsentField],
   [MemoP1 EXCEPT !.MemoType = PlainField("x402", TRUE),
                  !.MemoFormat = PlainField("application/json", FALSE)],
   [MemoP1 EXCEPT !.MemoData = AbsentField],
   [MemoP1 EXCEPT !.MemoData = EmptyField],
   X402Memo(Lit("1")),
   X402Memo(Lit("not json")),
   NoMemo}

\* Memos members: none, an empty list, one entry, two entries
RecordMemos ==
  {[present |-> FALSE, list |-> <<>>], [present |-> TRUE, list |-> <<>>]}
    \cup {[present |-> TRUE, list |-> <<m>>] : m \in RecordMemoEntries}
    \cup {[present |-> TRUE, list |-> <<m, n>>] :
            m \in RecordMemoEntries, n \in {MemoP1, MemoP2}}

\* every combination of what gates 8-11 read
CoarseRecords ==
  {[validated |-> validated,
    TransactionType |-> type,
    Account |-> account,
    Destination |-> destination,
    DestinationTag |-> tag,
    Amount |-> amount,
    Flags |-> flags,
    Memos |-> memos,
    SendMax |-> fields[1], Paths |-> fields[2], DeliverMin |-> fields[3]] :
     validated \in BOOLEAN,
     type \in {"Payment", "OfferCreate"},
     account \in {"rPAYER", Undefined, "", " "},
     destination \in {"rDEST", "rOTHER", Undefined},
     tag \in {Absent, Present(0), Present(7)},
     amount \in {DropsAmount(NatToDigits(2500000)),
                 IssuedAmount("RLUSD", "rISSUER", Amount10_25), NoAmount},
     flags \in RecordFlags,
     memos \in {[present |-> TRUE, list |-> <<MemoP1>>],
                [present |-> FALSE, list |-> <<>>]},
     fields \in RecordPathFields}

\* the record of makeTx with every Amount and every Memos member
FineRecords ==
  {[MakeTx(XrpP1) EXCEPT !.Amount = amount, !.Memos = memos] :
     amount \in RecordAmounts, memos \in RecordMemos}

Records == CoarseRecords \cup FineRecords

\* the challenges of the calls under SpecRecord
RecordChallenges == {"xrpP1", "iouP1", "iou10_250"}

\* lines 341-405: the awaited fetchTransaction resolves to the record tx and
\* the call runs to its return
ResumeRecord(c, tx) ==
  \E call \in {calls[c]} :
      /\ call.pc = "fetch"
      /\ \E out \in {VerifyAfterFetch(FetchVerdict(ChallengeOf[call.challenge],
                                                   FetchedTx(tx)),
                                      ChallengeOf[call.challenge].paymentId,
                                      call.receipt.txHash,
                                      paymentIdToTxHash, txHashToPaymentId)} :
           /\ paymentIdToTxHash' = out.p2t
           /\ txHashToPaymentId' = out.t2p
           /\ calls' = [calls EXCEPT ![c] = Idle]
           /\ last' = [op |-> "verify", call |-> c, challenge |-> call.challenge,
                       header |-> call.header, now |-> call.now,
                       receipt |-> IF out.status = "ok" THEN call.receipt ELSE NoReceipt,
                       seen |-> call.seen, fetched |-> "record", tx |-> tx,
                       status |-> out.status, code |-> out.code, gate |-> out.gate,
                       idempotent |-> out.idempotent,
                       payerAccount |-> out.payerAccount,
                       trace |-> call.trace \o out.trace,
                       first |-> out.status = "ok" /\ ~Succeeded(call.receipt)]
           /\ succeeded' = IF out.status = "ok" THEN succeeded \cup {call.receipt}
                           ELSE succeeded

\* the first verifySettlement call on a new store, for the receipt (P1, T1)
\* and an unexpired challenge for P1, its fetch resolving to some record
StartRecord ==
  /\ last.op = "none"
  /\ \E challenge \in RecordChallenges : Start(1, challenge, "t1p1", ExpiresAt)

ResumeRecordCall ==
  /\ calls[1].pc = "fetch"
  /\ \E tx \in Records : ResumeRecord(1, tx)

\* the fetch of that call resolves to null
ResumeAbsent ==
  /\ calls[1].pc = "fetch"
  /\ Resume(1, "null")

NextRecord == StartRecord \/ ResumeRecordCall \/ ResumeAbsent

SpecRecord == Init /\ [][NextRecord]_vars

\* callers other than verifySettlement fill the store, then one
\* verifySettlement call is made for some challenge, receipt header and now
RegisterAdmit ==
  /\ last.op # "verify"
  /\ calls[1].pc = "idle"
  /\ \E p \in PaymentIds, t \in TxHashes : Register(p, t)

StartAdmit ==
  /\ last.op # "verify"
  /\ \E challenge \in AdmitChallenges, header \in AdmitHeaders, now \in Nows :
       Start(1, challenge, header, now)

ResumeAdmit ==
  /\ calls[1].pc = "fetch"
  /\ \E fetched \in AdmitFetches : Resume(1, fetched)

NextAdmit == RegisterAdmit \/ StartAdmit \/ ResumeAdmit

SpecAdmit == Init /\ [][NextAdmit]_vars

(***************************************************************************)
(* The receipt codec on its own: one call of decodeReceiptHeader on some   *)
(* header value, or one call of encodeReceiptHeader on some receipt        *)
(* followed by decodeReceiptHeader on what it returned.                    *)
(***************************************************************************)
\* the members a JSON object may hold under network, txHash and paymentId
JsonNetworks ==
  {JAbsent, JNum(1), JStr(""), JStr("xrpl:unknown"), JStr("xrpl:testnet"), JStr("xrpl:1")}

JsonTxHashes == {JAbsent, JNum(1), JStr(""), JStr(" "), JStr("T1")}

JsonPaymentIds == {JAbsent, JNum(1), JStr(""), JStr(" "), JStr("P1")}

\* the texts a header value may stand for
HeaderTexts ==
  {MalformedJson, [MalformedJson EXCEPT !.parse = "nonobject"]}
    \cup [parse : {"object"}, network : JsonNetworks, txHash : JsonTxHashes,
          paymentId : JsonPaymentIds]

\* the header values: each text in each form, and the value of the tests
HeaderValues == [form : Base64Forms, text : HeaderTexts] \cup {MalformedHeader}

\* the receipts handed to encodeReceiptHeader
CodecReceipts ==
  [network : SUPPORTED_NETWORKS \cup {"xrpl:unknown", ""},
   txHash : TxHashes \cup Blank,
   paymentId : PaymentIds \cup Blank]

DecodeHeader ==
  /\ last.op = "none"
  /\ \E value \in HeaderValues :
       last' = [op |-> "decode", value |-> value,
                decoded |-> decodeReceiptHeader(value)]
  /\ UNCHANGED <<paymentIdToTxHash, txHashToPaymentId, calls, succeeded>>

EncodeThenDecode ==
  /\ last.op = "none"
  /\ \E receipt \in CodecReceipts :
     \E encoded \in {encodeReceiptHeader(receipt)} :
       last' = [op |-> "encode", receipt |-> receipt, encoded |-> encoded,
                decoded |-> IF encoded.err = Pass
                              THEN decodeReceiptHeader(encoded.header)
                              ELSE [err |-> encoded.err, receipt |-> NoReceipt]]
  /\ UNCHANGED <<paymentIdToTxHash, txHashToPaymentId, calls, succeeded>>

NextCodec == DecodeHeader \/ EncodeThenDecode

SpecCodec == Init /\ [][NextCodec]_vars

(***************************************************************************)
(* createChallenge on its own: one call on some parameters.                *)
(***************************************************************************)
\* amounts handed to createChallenge: canonical ones, ones with trailing
\* zeros, and strings the decimal pattern refuses
CreateAmounts ==
  {Amount2_5, Amount10_25, Amount10_250,
   <<"0">>, <<"1">>, <<"1", "0">>, <<"1", "0", ".", "0">>, <<"0", ".", "0">>,
   <<"0", ".", "5", "0", "0">>, <<"2", ".", "0", "5", "0">>,
   <<"0", "2", ".", "5">>, <<"0", "0">>, <<"2", ".">>, <<".", "5">>, <<>>,
   <<"-", "1">>, <<"1", ".", "2", ".", "3">>, <<"1", "e", "3">>, <<" ", "1">>}

CreateParams ==
  [network : SUPPORTED_NETWORKS \cup {"xrpl:unknown", ""},
   amount : CreateAmounts,
   asset : {XrpAsset, IouAsset("RLUSD", "rISSUER"), IouAsset("", "rISSUER"),
            IouAsset("RLUSD", " ")},
   destination : {"rDEST", "", " "},
   expiresAt : {IsoUtc(ExpiresAt), NotADate, DateOnly, OffsetTime},
   paymentId : {"P1", "", " "},
   sessionId : {JAbsent, JStr("S1")}]

CreateChallenge ==
  /\ last.op = "none"
  /\ \E params \in CreateParams :
       last' = [op |-> "create", params |-> params,
                created |-> createChallenge(params)]
  /\ UNCHANGED <<paymentIdToTxHash, txHashToPaymentId, calls, succeeded>>

NextCreate == CreateChallenge

SpecCreate == Init /\ [][NextCreate]_vars

(***************************************************************************)
(* The decimal codec on its own: one decimal string normalized, converted  *)
(* to drops and back; or one drops string converted to XRP.                *)
(***************************************************************************)
\* the longest fractional part of the strings
MaxFractionDigits == 7

IntegerParts == {<<"0">>, <<"1">>, <<"2", "5">>, <<"0", "7">>, <<>>, <<"-", "1">>}

FractionParts == UNION {[1..n -> {"0", "5"}] : n \in 1..MaxFractionDigits}

\* integer parts alone, with a fractional part, and with an empty one
DecimalStrings ==
  IntegerParts
    \cup {int \o <<".">> \o frac : int \in IntegerParts, frac \in FractionParts}
    \cup {Append(int, ".") : int \in IntegerParts}

\* strings handed to dropsToXrp
DropsStrings ==
  {<<"0">>, <<"1">>, <<"0", "0", "1">>, Drops2500001, NatToDigits(2500000),
   NatToDigits(10250000), <<>>, <<"2", ".", "5">>, <<"-", "1">>, <<"x">>}

ConvertDecimal ==
  /\ last.op = "none"
  /\ \E d \in DecimalStrings :
     \E drops \in {xrpToDrops(d)} :
       last' = [op |-> "xrpToDrops", d |-> d,
                normalized |-> normalizeDecimal(d),
                drops |-> drops,
                back |-> IF drops.err = Pass THEN dropsToXrp(drops.value)
                         ELSE [err |-> drops.err, value |-> <<>>]]
  /\ UNCHANGED <<paymentIdToTxHash, txHashToPaymentId, calls, succeeded>>

ConvertDrops ==
  /\ last.op = "none"
  /\ \E drops \in DropsStrings :
       last' = [op |-> "dropsToXrp", drops |-> drops, xrp |-> dropsToXrp(drops)]
  /\ UNCHANGED <<paymentIdToTxHash, txHashToPaymentId, calls, succeeded>>

NextDecimal == ConvertDecimal \/ ConvertDrops

SpecDecimal == Init /\ [][NextDecimal]_vars

(***************************************************************************)
(* The boundaries that accept a network: one call of createChallenge, of   *)
(* decodeReceiptHeader, of encodeReceiptHeader, or verifySettlement calls  *)
(* one after the other on a store nobody else writes.                      *)
(***************************************************************************)
BoundaryHeaders == AdmitHeaders \cup {"unknownT1p1"}

CreateAtBoundary == calls[1].pc = "idle" /\ CreateChallenge

DecodeAtBoundary == calls[1].pc = "idle" /\ DecodeHeader

EncodeAtBoundary == calls[1].pc = "idle" /\ EncodeThenDecode

StartAtBoundary ==
  /\ last.op \in {"none", "verify"}
  /\ \E challenge \in AdmitChallenges, header \in BoundaryHeaders :
       Start(1, challenge, header, ExpiresAt)

ResumeAtBoundary ==
  /\ calls[1].pc = "fetch"
  /\ \E fetched \in AdmitFetches : Resume(1, fetched)

NextBoundary ==
  \/ CreateAtBoundary
  \/ DecodeAtBoundary
  \/ EncodeAtBoundary
  \/ StartAtBoundary
  \/ ResumeAtBoundary

SpecBoundary == Init /\ [][NextBoundary]_vars

(***************************************************************************)
(* assertMemoMatches on its own: one call on some Memos member and some    *)
(* paymentId.                                                              *)
(***************************************************************************)
\* the longest Memos list
MaxMemos == 3

\* a field that is no even run of hex digits: an odd run of hex digits, an
\* odd-length string with another character
OddHexField(s) == [form |-> "oddhex", text |-> Lit(s), nan |-> FALSE]

OddPlainField(s) == [form |-> "oddplain", text |-> Lit(s), nan |-> TRUE]

\* a memo of another application: its type, no format, its data
ForeignMemo(data) ==
  [present |-> TRUE, MemoType |-> utf8ToHex(Lit("other")),
   MemoFormat |-> AbsentField, MemoData |-> data]

\* the entries of the lists: the memos of P1 and P2; x402 memos whose JSON
\* is well formed and names no payment (another v, another t, a numeric
\* paymentId, a number); x402 memos whose data is no JSON, is null, is no
\* hex; memos of another type or format with data of every form; entries
\* without data or without Memo
MemoEntries ==
  {MemoP1, MemoP2,
   X402Memo(JsonText(JNum("2"), JStr("x402"), JStr("P1"), JAbsent)),
   X402Memo(JsonText(JNum("1"), JStr("other"), JStr("P1"), JAbsent)),
   X402Memo(JsonText(JNum("1"), JStr("x402"), JNum("P1"), JAbsent)),
   X402Memo(Lit("1")),
   X402Memo(Lit("not json")),
   X402Memo(Lit("null")),
   [MemoP1 EXCEPT !.MemoData = PlainField("{}", TRUE)],
   [MemoP1 EXCEPT !.MemoType = utf8ToHex(Lit("other"))],
   [MemoP1 EXCEPT !.MemoFormat = utf8ToHex(Lit("text/plain"))],
   ForeignMemo(utf8ToHex(Lit("hello"))),
   ForeignMemo(OddHexField("abc")),
   ForeignMemo(OddPlainField("hello")),
   ForeignMemo(PlainField("hi", TRUE)),
   ForeignMemo(PlainField("1z", FALSE)),
   [MemoP1 EXCEPT !.MemoData = AbsentField],
   [MemoP1 EXCEPT !.MemoData = EmptyField],
   NoMemo}

\* the Memos members: none, and every list of at most MaxMemos entries
MemoLists ==
  {[present |-> FALSE, list |-> <<>>]}
    \cup {[present |-> TRUE, list |-> list] :
            list \in UNION {[1..n -> MemoEntries] : n \in 0..MaxMemos}}

MatchMemo ==
  /\ last.op = "none"
  /\ \E memos \in MemoLists, paymentId \in PaymentIds :
       last' = [op |-> "matchMemo", memos |-> memos, paymentId |-> paymentId,
                result |-> assertMemoMatches(memos, paymentId)]
  /\ UNCHANGED <<paymentIdToTxHash, txHashToPaymentId, calls, succeeded>>

NextMemo == MatchMemo

SpecMemo == Init /\ [][NextMemo]_vars

(***************************************************************************)
(* Every gate of verifySettlement in one call: other callers register      *)
(* pairs before the call and during its await, the call is made for some   *)
(* challenge, receipt header and now, and its fetch resolves to null or to *)
(* a record that is right or wrong at each of steps 8-13.                  *)
(***************************************************************************)
GateRecords ==
  {[validated |-> validated,
    TransactionType |-> "Payment",
    Account |-> account,
    Destination |-> destination,
    DestinationTag |-> Absent,
    Amount |-> amount,
    Flags |-> flags,
    Memos |-> memos,
    SendMax |-> FALSE, Paths |-> FALSE, DeliverMin |-> FALSE] :
     validated \in BOOLEAN,
     account \in {"rPAYER", Undefined},
     destination \in {"rDEST", "rOTHER"},
     amount \in {DropsAmount(NatToDigits(2500000)), DropsAmount(Drops2500001),
                 IssuedAmount("RLUSD", "rISSUER", Amount10_25), NoAmount},
     flags \in {Absent, Present(PARTIAL_PAYMENT_FLAG)},
     memos \in {[present |-> TRUE, list |-> <<MemoP1>>],
                [present |-> TRUE, list |-> <<MemoP2>>],
                [present |-> FALSE, list |-> <<>>]}}

RegisterGate ==
  /\ last.op # "verify"
  /\ \E p \in PaymentIds, t \in TxHashes : Register(p, t)

StartGate ==
  /\ last.op # "verify"
  /\ \E challenge \in AdmitChallenges, header \in BoundaryHeaders, now \in Nows :
       Start(1, challenge, header, now)

ResumeGate ==
  /\ calls[1].pc = "fetch"
  /\ \E tx \in GateRecords : ResumeRecord(1, tx)

ResumeGateAbsent ==
  /\ calls[1].pc = "fetch"
  /\ Resume(1, "null")

NextGate == RegisterGate \/ StartGate \/ ResumeGate \/ ResumeGateAbsent

SpecGate == Init /\ [][NextGate]_vars

(***************************************************************************)
(* The same receipt presented again: verifySettlement calls one after the  *)
(* other on a store nobody else writes, for the pair (P1, T1) and          *)
(* challenges for P1 that differ in network, destination, asset or amount. *)
(* No fetch comes back with an issued-currency Amount.                     *)
(***************************************************************************)
RepeatChallenges == {"xrpP1", "a10_25", "iouP1", "mainP1", "otherDestP1"}

RepeatHeaders == {"t1p1", "mainT1p1"}

RepeatFetches == {"txP1", "otherDest", "d10250000", "null"}

StartRepeat ==
  \E challenge \in RepeatChallenges, header \in RepeatHeaders :
    Start(1, challenge, header, ExpiresAt)

ResumeRepeat ==
  /\ calls[1].pc = "fetch"
  /\ \E fetched \in RepeatFetches : Resume(1, fetched)

NextRepeat == StartRepeat \/ ResumeRepeat

SpecRepeat == Init /\ [][NextRepeat]_vars

(***************************************************************************)
(* Who paid: verifySettlement calls one after the other on a store nobody  *)
(* else writes, each fetch coming back with the record of makeTx under     *)
(* some Account and Destination.                                           *)
(***************************************************************************)
PayerAccounts == {"rPAYER", "rPAYER2", Undefined, "", " "}

PayerRecords ==
  {[MakeTx(challenge) EXCEPT !.Account = account, !.Destination = destination] :
     challenge \in {XrpP1, XrpP2},
     account \in PayerAccounts,
     destination \in {"rDEST", "rOTHER"}}

StartPayer ==
  \E challenge \in {"xrpP1", "xrpP2"}, header \in {"t1p1", "t1p2", "t2p1", "t2p2"} :
    Start(1, challenge, header, ExpiresAt)

ResumePayer ==
  /\ calls[1].pc = "fetch"
  /\ \E tx \in PayerRecords : ResumeRecord(1, tx)

NextPayer == StartPayer \/ ResumePayer

SpecPayer == Init /\ [][NextPayer]_vars

(***************************************************************************)
(* The replay store as a relation, and what the claims speak of.           *)
(***************************************************************************)
\* the pairs either map holds
StorePairs ==
  {<<p, t>> \in PaymentIds \X TxHashes :
     paymentIdToTxHash[p] = t \/ txHashToPaymentId[t] = p}

\* two pairs that a bijection cannot hold together
Conflicting(pair1, pair2) ==
  \/ pair1[1] = pair2[1] /\ pair1[2] # pair2[2]
  \/ pair1[2] = pair2[2] /\ pair1[1] # pair2[1]

\* C1: in every reachable state of the replay store, whatever register and
\* verifySettlement calls came before and however they interleaved, each
\* paymentId is paired with at most one txHash and each txHash with at most
\* one paymentId.
C1_Bijection ==
  \A pair1 \in StorePairs, pair2 \in StorePairs : ~Conflicting(pair1, pair2)

\* C1 witness: the store holds two pairs, a verifySettlement call is suspended
\* at its fetch and the last call to return was refused as a replay.
C1_Witness ==
  /\ Cardinality(StorePairs) = 2
  /\ \E c \in Calls : calls[c].pc = "fetch"
  /\ last.status = "fail" /\ last.code = "replay_detected"

(***************************************************************************)
(* The call that returned last, read back from its arguments.              *)
(***************************************************************************)
LastIsVerify == last.op = "verify"

LastChallenge == ChallengeOf[last.challenge]

\* what decodeReceiptHeader makes of the header of the last call
LastDecoded == decodeReceiptHeader(HeaderOf[last.header])

\* gates 1-5 of the last call
LastAdmission == AdmissionOf[last.challenge, last.header, last.now]

\* the last call passed gates 1-5: a structurally valid, unexpired challenge
\* and a well-formed receipt for the challenge's network and paymentId
LastAdmitted == LastAdmission.status = "ok"

\* a success that had returned, when the last call began, for the paymentId
\* of its challenge and a txHash other than the one its receipt names
EarlierSuccessOtherTxHash ==
  \E r \in last.seen :
    /\ r.paymentId = LastChallenge.paymentId
    /\ LastDecoded.err = Pass
    /\ r.txHash # LastDecoded.receipt.txHash

\* C2, as stated: after a success for (P, T1), every later call with a
\* challenge whose paymentId is P and a receipt naming another txHash fails
\* with replay_detected.
C2_Original ==
  (LastIsVerify /\ EarlierSuccessOtherTxHash)
    => (last.status = "fail" /\ last.code = "replay_detected")

\* C2, amended: after a success for (P, T1), every later call with a
\* challenge whose paymentId is P and a receipt naming another txHash fails:
\* with replay_detected, at the replay lookup and without any fetch, when the
\* call passes gates 1-5, and with the error of the first failing gate 1-5
\* otherwise.
C2_Amended ==
  (LastIsVerify /\ EarlierSuccessOtherTxHash)
    => /\ last.status = "fail"
       /\ LastAdmitted =>
            /\ last.code = "replay_detected"
            /\ last.gate = 6
            /\ last.fetched = "none"
       /\ ~LastAdmitted => (last.code = LastAdmission.code /\ last.gate <= 5)

\* C2 witness: such a later call, admitted, was refused as a replay.
C2_Witness ==
  /\ LastIsVerify /\ EarlierSuccessOtherTxHash /\ LastAdmitted
  /\ last.code = "replay_detected"

\* a success that had returned, when the last call began, for the txHash its
\* receipt names and a paymentId other than the one of its challenge and receipt
EarlierSuccessOtherPaymentId ==
  \E r \in last.seen :
    /\ LastDecoded.err = Pass
    /\ r.txHash = LastDecoded.receipt.txHash
    /\ r.paymentId # LastChallenge.paymentId
    /\ r.paymentId # LastDecoded.receipt.paymentId

\* C5, as stated: after a success for (P1, T), any call with a challenge and
\* receipt for another paymentId and the same txHash fails with
\* replay_detected, registering nothing.
C5_Original ==
  (LastIsVerify /\ EarlierSuccessOtherPaymentId)
    => /\ last.status = "fail" /\ last.code = "replay_detected"
       /\ PairOf(LastDecoded.receipt) \notin StorePairs

\* C5, amended: after a success for (P1, T), any call with a challenge and
\* receipt for another paymentId and the same txHash fails and registers
\* nothing: with replay_detected, at the replay lookup, when the call passes
\* gates 1-5, and with the error of the first failing gate 1-5 otherwise.
C5_Amended ==
  (LastIsVerify /\ EarlierSuccessOtherPaymentId)
    => /\ last.status = "fail"
       /\ \A i \in DOMAIN last.trace : last.trace[i] # "register"
       /\ PairOf(LastDecoded.receipt) \notin StorePairs
       /\ LastAdmitted =>
            /\ last.code = "replay_detected"
            /\ last.gate = 6
            /\ last.fetched = "none"
       /\ ~LastAdmitted => (last.code = LastAdmission.code /\ last.gate <= 5)

\* C5 witness: such a call, admitted, was refused as a replay.
C5_Witness ==
  /\ LastIsVerify /\ EarlierSuccessOtherPaymentId /\ LastAdmitted
  /\ last.code = "replay_detected"

\* paymentId or txHash is already paired with another counterpart
RegisterConflict(paymentId, txHash) ==
  \/ paymentIdToTxHash[paymentId] \notin {Undefined, txHash}
  \/ txHashToPaymentId[txHash] \notin {Undefined, paymentId}

\* C9: register(paymentId, txHash) fails with replay_detected exactly when
\* paymentId is paired with another txHash or txHash with another paymentId,
\* and then changes neither map; otherwise it succeeds, the two lookups
\* return the pair afterwards and no other entry changes (registering an
\* existing pair again changes nothing).
C9_RegisterContract ==
  [][\A p \in PaymentIds, t \in TxHashes :
       Register(p, t) =>
         /\ (last'.status = "fail") <=> RegisterConflict(p, t)
         /\ last'.status = "fail" => last'.code = "replay_detected"
         /\ RegisterConflict(p, t) =>
              UNCHANGED <<paymentIdToTxHash, txHashToPaymentId>>
         /\ ~RegisterConflict(p, t) =>
              /\ last'.status = "ok"
              /\ getTxHashByPaymentId(paymentIdToTxHash', p) = t
              /\ getPaymentIdByTxHash(txHashToPaymentId', t) = p
              /\ \A q \in PaymentIds \ {p} : paymentIdToTxHash'[q] = paymentIdToTxHash[q]
              /\ \A u \in TxHashes \ {t} : txHashToPaymentId'[u] = txHashToPaymentId[u]
              /\ (paymentIdToTxHash[p] = t /\ txHashToPaymentId[t] = p) =>
                   UNCHANGED <<paymentIdToTxHash, txHashToPaymentId>>]_vars

\* C9 witness: register was refused while the store held two pairs, and
\* therefore for a pair whose two keys are both taken.
C9_Witness ==
  /\ last.op = "register" /\ last.status = "fail"
  /\ Cardinality(StorePairs) = 2

\* the header of the last call is the header of a success that had returned
\* when the call began
SubsequentSameReceipt ==
  LastDecoded.err = Pass /\ LastDecoded.receipt \in last.seen

\* the first success of a pair returns idempotent=false
FirstSuccessNotIdempotent ==
  (LastIsVerify /\ last.status = "ok" /\ last.first) => ~last.idempotent

\* C3, as stated: the first successful verifySettlement for a pair returns
\* idempotent=false, and every subsequent call with the identical receipt
\* header returns success with idempotent=true and the same receipt value.
C3_Original ==
  /\ FirstSuccessNotIdempotent
  /\ (LastIsVerify /\ SubsequentSameReceipt)
       => /\ last.status = "ok" /\ last.idempotent
          /\ last.receipt = LastDecoded.receipt

\* C3, amended: on a store written only by verifySettlement, the first
\* successful call for a pair returns idempotent=false, and every subsequent
\* call with the identical receipt header whose challenge passes gates 1-5
\* at the time of that call returns success with idempotent=true and the
\* same receipt value, without a fetch; a subsequent call that does not pass
\* them fails with the error of its first failing gate.
C3_Amended ==
  /\ FirstSuccessNotIdempotent
  /\ (LastIsVerify /\ SubsequentSameReceipt /\ LastAdmitted)
       => /\ last.status = "ok" /\ last.idempotent
          /\ last.receipt \in last.seen
          /\ last.receipt = LastDecoded.receipt
          /\ last.fetched = "none"
  /\ (LastIsVerify /\ SubsequentSameReceipt /\ ~LastAdmitted)
       => /\ last.status = "fail"
          /\ last.code = LastAdmission.code

\* C3 witness: a pair was verified a second time, with the same header, and
\* the call returned through the idempotent path.
C3_Witness ==
  /\ LastIsVerify /\ SubsequentSameReceipt /\ LastAdmitted
  /\ last.status = "ok" /\ last.idempotent /\ ~last.first

\* the collaborator calls of the last call that are fetches
FetchCalls == {i \in DOMAIN last.trace : last.trace[i] = "fetchTransaction"}

\* the last call returned before step 7
ReturnedBeforeFetch ==
  \/ last.status = "ok" /\ last.idempotent
  \/ last.status = "fail" /\ last.gate <= 6

\* C4: a call that returns idempotent=true or fails at one of steps 1-6 makes
\* no fetch; every other call makes exactly one, after the two replay lookups
\* and before register; so verifying a registered pair again succeeds
\* whatever the ledger would now answer.
C4_FetchDiscipline ==
  LastIsVerify =>
    /\ ReturnedBeforeFetch => (FetchCalls = {} /\ last.fetched = "none")
    /\ ~ReturnedBeforeFetch =>
         /\ FetchCalls = {3}
         /\ last.fetched # "none"
         /\ last.trace[1] = "getTxHashByPaymentId"
         /\ last.trace[2] = "getPaymentIdByTxHash"
         /\ \A i \in DOMAIN last.trace : last.trace[i] = "register" => i = 4
         /\ Len(last.trace) <= 4
    /\ (LastAdmitted /\ \E r \in last.seen : PairOf(r) = PairOf(LastAdmission.receipt))
         => /\ last.status = "ok" /\ last.idempotent
            /\ FetchCalls = {}

\* C4 witness: a registered pair was verified again and the call succeeded
\* without a fetch.
C4_Witness ==
  /\ LastIsVerify /\ LastAdmitted
  /\ LastAdmission.receipt \in last.seen
  /\ last.status = "ok" /\ last.idempotent /\ FetchCalls = {}

\* C4 witness of the other case: a call fetched once and then registered.
C4_WitnessFetched ==
  /\ LastIsVerify /\ ~ReturnedBeforeFetch
  /\ last.trace = <<"getTxHashByPaymentId", "getPaymentIdByTxHash",
                    "fetchTransaction", "register">>

\* the store differs between the two states of a step
StoreChanges ==
  \/ paymentIdToTxHash' # paymentIdToTxHash
  \/ txHashToPaymentId' # txHashToPaymentId

\* C6: a verifySettlement call that ends in a failure, an error of the fetch
\* included, writes nothing to the replay store, and register is invoked only
\* by a call that passed steps 1-13. (A step of the model belongs to one
\* call: the store "as it was when the call started" is read as the store
\* the call itself leaves untouched; other calls may write in between.)
C6_NoWriteOnFailure ==
  [][/\ (last'.op = "verify" /\ last'.status = "fail") => ~StoreChanges
     /\ (last'.op = "verify" /\ StoreChanges) =>
          /\ last'.status = "ok" /\ ~last'.idempotent
          /\ AdmissionOf[last'.challenge, last'.header, last'.now].status = "ok"
          /\ VerdictOf[last'.challenge, last'.fetched].code = Pass
          /\ paymentIdToTxHash' =
               [paymentIdToTxHash EXCEPT ![last'.receipt.paymentId] = last'.receipt.txHash]
          /\ txHashToPaymentId' =
               [txHashToPaymentId EXCEPT ![last'.receipt.txHash] = last'.receipt.paymentId]
     /\ (last'.op = "verify" /\ \E i \in DOMAIN last'.trace : last'.trace[i] = "register") =>
          /\ AdmissionOf[last'.challenge, last'.header, last'.now].status = "ok"
          /\ last'.fetched # "none"
          /\ VerdictOf[last'.challenge, last'.fetched].code = Pass]_vars

\* C6 witness: a call failed after its fetch, on a transaction check, while
\* the store held a pair.
C6_Witness ==
  /\ LastIsVerify /\ last.status = "fail"
  /\ last.gate \in 8..13
  /\ StorePairs # {}

\* C6 witness: a call failed on an error raised by the fetch.
C6_WitnessFetchError ==
  LastIsVerify /\ last.status = "fail" /\ last.fetched = "error"

\* the last call succeeded for a pair for which another call succeeded
\* between its replay lookup and its return: the two overlapped at the fetch
\* and the other one registered first
LostSamePairRace ==
  /\ LastIsVerify /\ last.status = "ok"
  /\ ~last.first
  /\ \A r \in last.seen : PairOf(r) # PairOf(last.receipt)

\* C7: of two overlapping calls for the same pair, the one that registers
\* second returns success through the idempotent path (idempotent=true).
C7_LoserIdempotent ==
  LostSamePairRace => last.idempotent

\* C7: the case is reached, two calls for one pair suspended at the fetch
\* together and both returned.
C7_Witness ==
  LostSamePairRace

\* the last call was valid in everything but lost the registration to a call
\* for a conflicting pair that succeeded while it was suspended at the fetch
LostConflictingRace(winner) ==
  /\ LastIsVerify /\ LastAdmitted
  /\ last.fetched # "none"
  /\ VerdictOf[last.challenge, last.fetched].code = Pass
  /\ winner \in succeeded \ last.seen
  /\ Conflicting(PairOf(winner), PairOf(LastAdmission.receipt))

\* C8: of two overlapping, otherwise valid calls for conflicting pairs, one
\* succeeds and the other fails with replay_detected raised by register, and
\* the store holds the winner's pair and not the loser's.
C8_ConflictingRace ==
  \A winner \in succeeded :
    LostConflictingRace(winner) =>
      /\ last.status = "fail" /\ last.code = "replay_detected"
      /\ last.gate = 14
      /\ last.trace[Len(last.trace)] = "register"
      /\ PairOf(winner) \in StorePairs
      /\ PairOf(LastAdmission.receipt) \notin StorePairs
      /\ LastAdmission.receipt \notin succeeded

\* C8 witness: a call lost such a race, on the paymentId side.
C8_Witness ==
  \E winner \in succeeded :
    /\ LostConflictingRace(winner)
    /\ winner.paymentId = LastAdmission.receipt.paymentId
    /\ last.code = "replay_detected"

\* C8 witness: a call lost such a race, on the txHash side.
C8_WitnessTxHash ==
  \E winner \in succeeded :
    /\ LostConflictingRace(winner)
    /\ winner.txHash = LastAdmission.receipt.txHash
    /\ last.code = "replay_detected"

\* the number a decimal numeral of digits stands for
RECURSIVE NatOf(_)
NatOf(s) ==
  IF s = <<>> THEN 0
  ELSE 10 * NatOf(SubSeq(s, 1, Len(s) - 1))
         + (CHOOSE d \in 0..9 : ToString(d) = s[Len(s)])

RECURSIVE TenTo(_)
TenTo(n) == IF n = 0 THEN 1 ELSE 10 * TenTo(n - 1)

\* an amount of XRP is a whole number of drops: at most six decimal places
WholeDrops(amount) ==
  MatchesDecimal(amount) /\ Len(SplitFraction(amount)) <= 6

\* that number of drops, by arithmetic: a million per XRP
AmountInDrops(amount) ==
  NatOf(SplitInteger(amount)) * TenTo(6)
    + NatOf(SplitFraction(amount)) * TenTo(6 - Len(SplitFraction(amount)))

\* the Amount member of the record the last call fetched
LastTxAmount == FetchOf[last.fetched].tx.Amount

\* the last call, for an XRP challenge, fetched a record that passed the
\* gates before the amount step
ReachedAmountStep ==
  /\ LastIsVerify /\ LastChallenge.asset.kind = "XRP"
  /\ last.fetched # "none"
  /\ last.status = "ok" \/ last.gate >= 12

\* the amount step let the record through
AmountAccepted == last.status = "ok" \/ last.gate >= 13

\* the record's Amount is a drops string one drop off the challenge amount
OffByOneDrop ==
  /\ LastTxAmount.kind = "string" /\ LastTxAmount.drops # <<>>
  /\ AllDigits(LastTxAmount.drops)
  /\ WholeDrops(LastChallenge.amount)
  /\ \/ NatOf(LastTxAmount.drops) = AmountInDrops(LastChallenge.amount) + 1
     \/ NatOf(LastTxAmount.drops) + 1 = AmountInDrops(LastChallenge.amount)

\* C10: for an XRP challenge, a record that passed the earlier gates is
\* accepted at the amount step exactly when its Amount is the string
\* xrpToDrops(challenge.amount), which is the numeral of the amount in drops;
\* an Amount one drop off fails with invalid_amount; a challenge of 2.5
\* accepts 2500000 and rejects 2500001.
C10_ExactDrops ==
  ReachedAmountStep =>
    /\ AmountAccepted <=>
         /\ LastTxAmount.kind = "string"
         /\ xrpToDrops(LastChallenge.amount).err = Pass
         /\ LastTxAmount.drops = xrpToDrops(LastChallenge.amount).value
    /\ WholeDrops(LastChallenge.amount) =>
         /\ xrpToDrops(LastChallenge.amount).err = Pass
         /\ xrpToDrops(LastChallenge.amount).value
              = NatToDigits(AmountInDrops(LastChallenge.amount))
    /\ OffByOneDrop =>
         /\ last.status = "fail" /\ last.code = "invalid_amount"
         /\ last.gate = 12
    /\ LastChallenge.amount = Amount2_5 =>
         /\ LastTxAmount = DropsAmount(NatToDigits(2500000)) => AmountAccepted
         /\ LastTxAmount = DropsAmount(NatToDigits(2500001)) =>
              (last.status = "fail" /\ last.code = "invalid_amount")

\* C10 witness: a record one drop over the challenge amount was refused at
\* the amount step.
C10_Witness ==
  /\ ReachedAmountStep /\ OffByOneDrop
  /\ NatOf(LastTxAmount.drops) = AmountInDrops(LastChallenge.amount) + 1
  /\ last.code = "invalid_amount" /\ last.gate = 12

(***************************************************************************)
(* The gates of the fetched record, read from the last call under          *)
(* SpecRecord.                                                             *)
(***************************************************************************)
\* the last call returned after its fetch resolved to a record
ReturnedForRecord == LastIsVerify /\ last.fetched = "record"

\* the last call failed with the code at the gate
FailedWith(code, gate) ==
  last.status = "fail" /\ last.code = code /\ last.gate = gate

\* the record of the last call passed every gate before the given one
PassedGatesBefore(gate) ==
  ReturnedForRecord /\ (last.status = "ok" \/ last.gate >= gate)

\* the Amount of the record is an issued amount of the challenge's currency
\* and issuer
SameIssuedAsset(challenge, amount) ==
  /\ amount.kind = "object"
  /\ amount.currency = challenge.asset.currency
  /\ amount.issuer = challenge.asset.issuer

\* C11: at the amount/asset step a mismatch of shape or identity gives
\* invalid_asset (XRP challenge and an Amount that is no string; IOU
\* challenge and an Amount that is no issued amount, or one of another
\* currency or issuer), a mismatch of value gives invalid_amount, and a
\* matching asset with the value of the challenge is accepted.  "Value" is
\* the string the challenge holds, for XRP converted to drops.
C11_AssetThenAmount ==
  PassedGatesBefore(12) =>
    \E challenge \in {LastChallenge} : \E amount \in {last.tx.Amount} :
      /\ (challenge.asset.kind = "XRP" /\ amount.kind # "string")
           => FailedWith("invalid_asset", 12)
      /\ (challenge.asset.kind = "IOU" /\ amount.kind # "object")
           => FailedWith("invalid_asset", 12)
      /\ (challenge.asset.kind = "IOU" /\ amount.kind = "object"
            /\ ~SameIssuedAsset(challenge, amount))
           => FailedWith("invalid_asset", 12)
      /\ (challenge.asset.kind = "IOU" /\ SameIssuedAsset(challenge, amount)
            /\ amount.value # challenge.amount)
           => FailedWith("invalid_amount", 12)
      /\ (challenge.asset.kind = "IOU" /\ SameIssuedAsset(challenge, amount)
            /\ amount.value = challenge.amount)
           => PassedGatesBefore(13)
      /\ (challenge.asset.kind = "XRP" /\ amount.kind = "string"
            /\ amount.drops # NatToDigits(AmountInDrops(challenge.amount)))
           => FailedWith("invalid_amount", 12)
      /\ (challenge.asset.kind = "XRP" /\ amount.kind = "string"
            /\ amount.drops = NatToDigits(AmountInDrops(challenge.amount)))
           => PassedGatesBefore(13)

\* C11 witness: an IOU challenge met an issued amount of its currency and
\* value from another issuer and the call failed with invalid_asset.
C11_Witness ==
  /\ PassedGatesBefore(12)
  /\ LastChallenge.asset.kind = "IOU"
  /\ last.tx.Amount = IssuedAmount("RLUSD", "rOTHER", LastChallenge.amount)
  /\ FailedWith("invalid_asset", 12)

\* the record of the last call reached the amount step of an IOU challenge
\* with an issued amount of the challenge's currency and issuer
IouValueCompared ==
  /\ PassedGatesBefore(12)
  /\ LastChallenge.asset.kind = "IOU"
  /\ SameIssuedAsset(LastChallenge, last.tx.Amount)

\* C12: for an IOU challenge that passed validation and a record of its
\* currency and issuer, the amount check passes exactly when the record's
\* value string is normalize(challenge.amount).
C12_CanonicalValue ==
  IouValueCompared =>
    (PassedGatesBefore(13)
       <=> last.tx.Amount.value = normalizeDecimal(LastChallenge.amount).value)

\* C12: what the code does instead, the record's value string is compared
\* with challenge.amount as the challenge holds it.
C12_LiteralValue ==
  IouValueCompared =>
    (PassedGatesBefore(13) <=> last.tx.Amount.value = LastChallenge.amount)

\* C12: a challenge of 10.250 met the value 10.25 and the call failed with
\* invalid_amount.
C12_Witness ==
  /\ IouValueCompared
  /\ LastChallenge.amount = Amount10_250
  /\ last.tx.Amount.value = Amount10_25
  /\ FailedWith("invalid_amount", 12)

\* a memo container holds an entry of type x402 and format application/json
\* whose data is the JSON of an object with v = 1, t = "x402" and the
\* paymentId
BoundEntry(memo, paymentId) ==
  /\ memo.present
  /\ memo.MemoType.form \notin {"absent", "empty"}
  /\ memo.MemoType.text = Lit("x402")
  /\ memo.MemoFormat.form \notin {"absent", "empty"}
  /\ memo.MemoFormat.text = Lit("application/json")
  /\ memo.MemoData.form = "hex"
  /\ memo.MemoData.text.lit = "json"
  /\ memo.MemoData.text.v = JNum("1")
  /\ memo.MemoData.text.t = JStr("x402")
  /\ memo.MemoData.text.paymentId = JStr(paymentId)

\* the Memos member holds such an entry
HasBoundEntry(memos, paymentId) ==
  /\ memos.present
  /\ \E i \in DOMAIN memos.list : BoundEntry(memos.list[i], paymentId)

\* C13: a record that passed the earlier gates and whose Memos member is
\* missing, empty or without an x402/application-json entry whose JSON has
\* v = 1, t = "x402" and the paymentId of the challenge fails with
\* invalid_memo and nothing is registered; so does the record whose memo is
\* right in everything but names another paymentId.
C13_MemoBinding ==
  PassedGatesBefore(13) =>
    /\ ~HasBoundEntry(last.tx.Memos, LastChallenge.paymentId) =>
         /\ FailedWith("invalid_memo", 13)
         /\ StorePairs = {}
         /\ \A i \in DOMAIN last.trace : last.trace[i] # "register"
    /\ last.tx.Memos = [present |-> TRUE, list |-> <<MemoP2>>] =>
         FailedWith("invalid_memo", 13)
    /\ last.status = "ok" => HasBoundEntry(last.tx.Memos, LastChallenge.paymentId)

\* C13 witness: the memo of another paymentId was refused.
C13_Witness ==
  /\ PassedGatesBefore(13)
  /\ last.tx.Memos = [present |-> TRUE, list |-> <<MemoP2>>]
  /\ LastChallenge.paymentId = "P1"
  /\ FailedWith("invalid_memo", 13)

\* bit 0x00020000 of the Flags member is set: the remainder of the value by
\* 0x00040000 is at least 0x00020000 (a missing member counts as 0)
PartialPaymentBitSet(flags) ==
  flags.present /\ (flags.value % (2 * 131072)) >= 131072

\* the record uses what safe mode forbids
SafeModeViolation(tx) ==
  PartialPaymentBitSet(tx.Flags) \/ tx.Paths \/ tx.SendMax \/ tx.DeliverMin

\* C14: a record that passed steps 7-10 fails with invalid_asset whenever
\* the partial-payment bit is set in Flags, whatever the other bits, or
\* Paths, SendMax or DeliverMin is present, whatever its destination, amount
\* and memo, and nothing is registered; a record without Flags, or with
\* Flags where the bit is clear, and without the three members passes step 11.
C14_SafeMode ==
  PassedGatesBefore(11) =>
    /\ SafeModeViolation(last.tx) =>
         /\ FailedWith("invalid_asset", 11)
         /\ StorePairs = {}
         /\ \A i \in DOMAIN last.trace : last.trace[i] # "register"
    /\ ~SafeModeViolation(last.tx) => PassedGatesBefore(12)

\* C14 witness: a record right in destination, amount and memo, with the
\* partial-payment bit among other bits of Flags, was refused.
C14_Witness ==
  /\ PassedGatesBefore(11)
  /\ last.tx.Flags.present /\ last.tx.Flags.value > PARTIAL_PAYMENT_FLAG
  /\ PartialPaymentBitSet(last.tx.Flags)
  /\ ~last.tx.Paths /\ ~last.tx.SendMax /\ ~last.tx.DeliverMin
  /\ last.tx.Amount = MakeTx(LastChallenge).Amount
  /\ last.tx.Memos = MakeTx(LastChallenge).Memos
  /\ FailedWith("invalid_asset", 11)

\* the record is a validated Payment
ValidatedPayment(tx) == tx.validated /\ tx.TransactionType = "Payment"

\* the record names a payer: Account is a string with a character that is no
\* white space
HasPayer(tx) == tx.Account # Undefined /\ tx.Account \notin {"", " "}

\* C15: a validated Payment with a payer account fails with
\* invalid_destination if its Destination is missing or differs from
\* challenge.destination, or if a DestinationTag is present, tag 0 included
\* and also under the right Destination; every success has the Destination
\* of the challenge and no DestinationTag.
C15_Destination ==
  ReturnedForRecord =>
    /\ PassedGatesBefore(10) <=> (ValidatedPayment(last.tx) /\ HasPayer(last.tx))
    /\ (PassedGatesBefore(10) /\ last.tx.Destination # LastChallenge.destination)
         => FailedWith("invalid_destination", 10)
    /\ (PassedGatesBefore(10) /\ last.tx.DestinationTag.present)
         => FailedWith("invalid_destination", 10)
    /\ (PassedGatesBefore(10) /\ last.tx.Destination = LastChallenge.destination
          /\ ~last.tx.DestinationTag.present)
         => PassedGatesBefore(11)
    /\ last.status = "ok" =>
         /\ last.tx.Destination = LastChallenge.destination
         /\ ~last.tx.DestinationTag.present

\* C15 witness: a record to the challenge's destination with DestinationTag 0
\* was refused.
C15_Witness ==
  /\ PassedGatesBefore(10)
  /\ last.tx.Destination = LastChallenge.destination
  /\ last.tx.DestinationTag = Present(0)
  /\ FailedWith("invalid_destination", 10)

\* the last call was suspended at the fetch: steps 1-6 passed without an
\* idempotent return
LastFetched == LastIsVerify /\ last.fetched # "none"

\* C16: when steps 1-6 pass without an idempotent return, a fetch that
\* resolves to null makes the call fail with tx_not_found, and a record with
\* validated false or a TransactionType other than "Payment" makes it fail
\* with tx_not_validated whatever its other members; neither registers.
C16_NotFoundNotValidated ==
  LastFetched =>
    /\ last.fetched = "null" =>
         /\ FailedWith("tx_not_found", 7)
         /\ StorePairs = {}
         /\ \A i \in DOMAIN last.trace : last.trace[i] # "register"
    /\ (last.fetched = "record" /\ ~ValidatedPayment(last.tx)) =>
         /\ FailedWith("tx_not_validated", 8)
         /\ StorePairs = {}
         /\ \A i \in DOMAIN last.trace : last.trace[i] # "register"
    /\ (last.fetched = "record" /\ ValidatedPayment(last.tx)) =>
         PassedGatesBefore(9)

\* C16 witness: a validated record of another TransactionType, right in its
\* other members, was refused.
C16_Witness ==
  /\ LastFetched /\ last.fetched = "record"
  /\ last.tx = [MakeTx(LastChallenge) EXCEPT !.TransactionType = "OfferCreate"]
  /\ FailedWith("tx_not_validated", 8)

\* C16 witness: the fetch resolved to null and the call failed with
\* tx_not_found.
C16_WitnessNotFound ==
  LastFetched /\ last.fetched = "null" /\ FailedWith("tx_not_found", 7)

(***************************************************************************)
(* Steps 1-5: the challenge, its expiry, the receipt.                      *)
(***************************************************************************)
\* the challenge-structure rules, as the challenge invariants state them
SupportedNetwork(challenge) == challenge.network \in SUPPORTED_NETWORKS

WellFormedChallenge(challenge) ==
  /\ SupportedNetwork(challenge)
  /\ challenge.version = "2"
  /\ MatchesDecimal(challenge.amount)
  /\ challenge.destination \notin Blank
  /\ challenge.paymentId \notin Blank
  /\ challenge.asset.kind = "IOU" =>
       challenge.asset.currency \notin Blank /\ challenge.asset.issuer \notin Blank
  /\ challenge.memo.format = "x402"
  /\ challenge.memo.paymentId = challenge.paymentId
  /\ challenge.expiresAt.valid /\ challenge.expiresAt.hasT /\ challenge.expiresAt.endsZ

\* the last call was made after the expiry of its challenge
LastNowAfterExpiry == last.now > LastChallenge.expiresAt.time

\* C17: for a structurally valid challenge the call fails with
\* expired_challenge exactly when now is later than expiresAt (a call at the
\* instant of expiry is not expired), and it does so at step 2, before the
\* receipt is decoded and before any lookup, whatever receipt and store hold.
C17_ExpiryAtNow ==
  (LastIsVerify /\ WellFormedChallenge(LastChallenge)) =>
    /\ (last.status = "fail" /\ last.code = "expired_challenge") <=> LastNowAfterExpiry
    /\ LastNowAfterExpiry => last.gate = 2 /\ last.trace = <<>>

\* an expired challenge, an undecodable receipt and a store that holds a pair
C17_Witness ==
  /\ LastIsVerify /\ WellFormedChallenge(LastChallenge) /\ LastNowAfterExpiry
  /\ last.code = "expired_challenge"
  /\ last.header = "malformed"
  /\ StorePairs # {}

\* a call at the instant of expiry that succeeds
C17_WitnessAtExpiry ==
  /\ LastIsVerify /\ WellFormedChallenge(LastChallenge)
  /\ last.now = LastChallenge.expiresAt.time
  /\ last.status = "ok"

\* the last call was made with a challenge that breaks a structure rule
LastChallengeViolation == LastIsVerify /\ ~WellFormedChallenge(LastChallenge)

\* C18: every challenge-structure violation that step 1 detects (unsupported
\* network, version other than "2", malformed decimal amount, empty
\* destination or paymentId, empty IOU currency or issuer, memo.format other
\* than x402, memo.paymentId different from paymentId, expiresAt not an
\* ISO-8601 UTC instant) makes the call fail with invalid_challenge.
C18_InvalidChallenge ==
  LastChallengeViolation => last.status = "fail" /\ last.code = "invalid_challenge"

\* what step 1 does: every violation fails the call at step 1, before the
\* receipt is read, with network_mismatch when the network is unsupported
\* (the first check made) and with invalid_challenge otherwise
C18_StepOneCodes ==
  LastChallengeViolation =>
    /\ last.status = "fail" /\ last.gate = 1 /\ last.trace = <<>>
    /\ last.code = IF SupportedNetwork(LastChallenge) THEN "invalid_challenge"
                   ELSE "network_mismatch"

\* a challenge on an unsupported network, refused with network_mismatch
C18_Witness ==
  /\ LastChallengeViolation
  /\ ~SupportedNetwork(LastChallenge)
  /\ LastChallenge = [XrpP1 EXCEPT !.network = LastChallenge.network]
  /\ last.code = "network_mismatch"

\* every other kind of violation, refused with invalid_challenge
C18_WitnessInvalid ==
  /\ LastChallengeViolation
  /\ SupportedNetwork(LastChallenge)
  /\ last.challenge = "memoPaymentId"
  /\ last.code = "invalid_challenge"

\* the last call passed steps 1-3: its challenge is well formed and not
\* expired, its receipt header decodes
LastReceiptDecoded ==
  /\ LastIsVerify
  /\ WellFormedChallenge(LastChallenge)
  /\ ~LastNowAfterExpiry
  /\ LastDecoded.err = Pass

OtherNetwork == LastDecoded.receipt.network # LastChallenge.network

OtherPaymentId == LastDecoded.receipt.paymentId # LastChallenge.paymentId

\* C19: a decoded receipt whose network differs from challenge.network fails
\* with network_mismatch, one whose network matches and whose paymentId
\* differs from challenge.paymentId fails with invalid_receipt; both before
\* any replay lookup or fetch; so every success has the challenge's network
\* and paymentId in its receipt.
C19_ReceiptBinding ==
  /\ (LastReceiptDecoded /\ OtherNetwork) =>
       /\ last.status = "fail" /\ last.code = "network_mismatch"
       /\ last.gate = 4 /\ last.trace = <<>>
  /\ (LastReceiptDecoded /\ ~OtherNetwork /\ OtherPaymentId) =>
       /\ last.status = "fail" /\ last.code = "invalid_receipt"
       /\ last.gate = 5 /\ last.trace = <<>>
  /\ (LastIsVerify /\ last.status = "ok") =>
       /\ LastReceiptDecoded /\ ~OtherNetwork /\ ~OtherPaymentId
       /\ last.receipt = LastDecoded.receipt

\* a receipt of another network and another paymentId, on a store that holds
\* the receipt's txHash: network_mismatch
C19_Witness ==
  /\ LastReceiptDecoded /\ OtherNetwork /\ OtherPaymentId
  /\ last.code = "network_mismatch"
  /\ txHashToPaymentId[LastDecoded.receipt.txHash] # Undefined

\* a receipt of the challenge's network and another paymentId, on a store
\* that pairs that paymentId: invalid_receipt
C19_WitnessPaymentId ==
  /\ LastReceiptDecoded /\ ~OtherNetwork /\ OtherPaymentId
  /\ last.code = "invalid_receipt"
  /\ paymentIdToTxHash[LastDecoded.receipt.paymentId] # Undefined

\* a success on a network other than testnet
C19_WitnessSuccess ==
  /\ LastIsVerify /\ last.status = "ok"
  /\ LastChallenge.network = "xrpl:1"
  /\ last.fetched = "txP1"

(***************************************************************************)
(* The receipt codec.                                                      *)
(***************************************************************************)
\* the text is a JSON object with a supported network, a non-empty string
\* txHash and a non-empty string paymentId
ReceiptObject(text) ==
  /\ text.parse = "object"
  /\ text.network.type = "string" /\ text.network.val \in SUPPORTED_NETWORKS
  /\ text.txHash.type = "string" /\ text.txHash.val # ""
  /\ text.paymentId.type = "string" /\ text.paymentId.val # ""

\* the header value is base64 of such an object
Base64OfReceiptObject(value) == value.form = "standard" /\ ReceiptObject(value.text)

\* the encoder accepted its receipt, and what it returned decodes to it
RoundTrip ==
  (last.op = "encode" /\ last.encoded.err = Pass) =>
    last.decoded.err = Pass /\ last.decoded.receipt = last.receipt

\* C20: decodeReceiptHeader fails with invalid_receipt for every header value
\* that is not base64 of a JSON object with a supported network, a non-empty
\* string txHash and a non-empty string paymentId; and
\* decodeReceiptHeader(encodeReceiptHeader(r)) equals r for every receipt r
\* that encodeReceiptHeader accepts.
C20_StrictDecode ==
  /\ (last.op = "decode" /\ ~Base64OfReceiptObject(last.value)) =>
       last.decoded.err = "invalid_receipt"
  /\ RoundTrip

\* what the codec does: a header value is refused, with invalid_receipt,
\* exactly when the text its base64 characters stand for, white space
\* skipped and either alphabet read, is not such an object; a value accepted
\* yields the three members of the object; and the round trip holds
C20_LenientDecode ==
  /\ last.op = "decode" =>
       /\ last.decoded.err \in {Pass, "invalid_receipt"}
       /\ last.decoded.err = Pass <=>
            (last.value.form \in Base64Forms /\ ReceiptObject(last.value.text))
       /\ last.decoded.err = Pass =>
            ReceiptJson(last.decoded.receipt) = last.value.text
  /\ RoundTrip

\* a header value that is not standard base64, decoded to a receipt
C20_Witness ==
  /\ last.op = "decode"
  /\ last.value.form = "spaced"
  /\ last.decoded.err = Pass
  /\ last.decoded.receipt = [network |-> "xrpl:testnet", txHash |-> "T1",
                             paymentId |-> "P1"]

\* a receipt the encoder accepts, returned by the decoder
C20_WitnessRoundTrip ==
  /\ last.op = "encode"
  /\ last.encoded.err = Pass
  /\ last.decoded.receipt = last.receipt
  /\ last.receipt.network = "xrpl:devnet"

(***************************************************************************)
(* The payer account.                                                      *)
(***************************************************************************)
\* the record of the usage example: makeTx of the tests without its Account
ReadmeRecord == [MakeTx(XrpP1) EXCEPT !.Account = Undefined]

\* the last call was made as in the usage example: an unexpired XRP
\* challenge, its receipt, a new store, the fetch resolving to ReadmeRecord
LastIsReadmeExample ==
  /\ ReturnedForRecord
  /\ last.challenge = "xrpP1"
  /\ last.seen = {}
  /\ last.tx = ReadmeRecord

\* C21: a fetched record of validated true, TransactionType "Payment", the
\* challenge's Destination, the challenge amount in drops and the memo of
\* buildXrplMemo(challenge), without an Account, is verified successfully
\* against an unexpired XRP challenge and a new store, with idempotent false.
C21_ReadmeExample ==
  LastIsReadmeExample => last.status = "ok" /\ ~last.idempotent

\* what the call does with that record: it fails with invalid_receipt at the
\* payer check and registers nothing
C21_AccountRequired ==
  LastIsReadmeExample => FailedWith("invalid_receipt", 9) /\ StorePairs = {}

C21_Witness == LastIsReadmeExample /\ FailedWith("invalid_receipt", 9)

\* the same record with an Account is verified
C21_WitnessWithAccount ==
  /\ ReturnedForRecord /\ last.challenge = "xrpP1"
  /\ last.tx = MakeTx(XrpP1)
  /\ last.status = "ok" /\ ~last.idempotent

\* the record of the last call is right for its challenge from step 10 on
RightButForAccount ==
  last.tx = [MakeTx(LastChallenge) EXCEPT !.Account = last.tx.Account]

C22_WitnessBlank ==
  /\ ReturnedForRecord /\ RightButForAccount
  /\ last.tx.Account = " "
  /\ FailedWith("invalid_receipt", 9)

\* a success with its payerAccount
C22_WitnessSuccess ==
  /\ ReturnedForRecord /\ last.status = "ok" /\ last.payerAccount = "rPAYER"

(***************************************************************************)
(* createChallenge.                                                        *)
(***************************************************************************)
\* a decimal string: digits with no leading zero but a single 0, then
\* possibly one "." and at least one digit
WellFormedDecimal(s) ==
  LET dots == {i \in 1..Len(s) : s[i] = "."}
      int == IF dots = {} THEN s ELSE SubSeq(s, 1, DotAt(s) - 1)
      frac == IF dots = {} THEN <<>> ELSE SubSeq(s, DotAt(s) + 1, Len(s))
  IN  /\ Cardinality(dots) <= 1
      /\ Len(int) >= 1 /\ AllDigits(int)
      /\ Len(int) > 1 => int[1] # "0"
      /\ dots # {} => Len(frac) >= 1 /\ AllDigits(frac)

\* one in canonical form: no trailing zero in the fraction
CanonicalDecimal(s) ==
  /\ WellFormedDecimal(s)
  /\ (\E i \in 1..Len(s) : s[i] = ".") => s[Len(s)] # "0"

\* the number a decimal string stands for, in units of 10^-4
TenThousandths(s) ==
  NatOf(SplitInteger(s)) * TenTo(4)
    + NatOf(SplitFraction(s)) * TenTo(4 - Len(SplitFraction(s)))

\* the parameters break no rule of createChallenge
WellFormedParams(params) ==
  /\ params.network \in SUPPORTED_NETWORKS
  /\ WellFormedDecimal(params.amount)
  /\ params.expiresAt.valid /\ params.expiresAt.hasT /\ params.expiresAt.endsZ
  /\ params.destination \notin Blank
  /\ params.paymentId \notin Blank
  /\ params.asset.kind = "IOU" =>
       params.asset.currency \notin Blank /\ params.asset.issuer \notin Blank

LastIsCreate == last.op = "create"

Created == last.created.challenge

\* C23: every challenge createChallenge returns has version "2", the
\* normalized input amount as amount (no leading zeros but a single 0, no
\* trailing fractional zeros, no empty fraction), memo.format "x402" and
\* memo.paymentId equal to paymentId; createChallenge rejects an unsupported
\* network, a malformed amount, an expiry that is no ISO UTC instant, an
\* empty destination or paymentId, an IOU with empty currency or issuer.
C23_CreateChallenge ==
  LastIsCreate =>
    /\ last.created.err = Pass <=> WellFormedParams(last.params)
    /\ last.created.err = Pass =>
         /\ Created.version = "2"
         /\ Created.amount = normalizeDecimal(last.params.amount).value
         /\ CanonicalDecimal(Created.amount)
         /\ TenThousandths(Created.amount) = TenThousandths(last.params.amount)
         /\ Created.memo.format = "x402"
         /\ Created.paymentId = last.params.paymentId
         /\ Created.memo.paymentId = Created.paymentId

\* an IOU challenge made from an amount with trailing zeros
C23_Witness ==
  /\ LastIsCreate /\ last.created.err = Pass
  /\ last.params.amount = <<"2", ".", "0", "5", "0">>
  /\ Created.amount = <<"2", ".", "0", "5">>
  /\ last.params.asset.kind = "IOU"

\* "10.0" becomes "10"
C23_WitnessWhole ==
  /\ LastIsCreate /\ last.created.err = Pass
  /\ last.params.amount = <<"1", "0", ".", "0">>
  /\ Created.amount = <<"1", "0">>

\* parameters whose only fault is the amount "02.5", rejected
C23_WitnessRejected ==
  /\ LastIsCreate /\ last.created.err # Pass
  /\ last.params.amount = <<"0", "2", ".", "5">>
  /\ WellFormedParams([last.params EXCEPT !.amount = Amount2_5])

(***************************************************************************)
(* The decimal codec.                                                      *)
(***************************************************************************)
\* the number of characters after the first "."
FractionLength(s) == IF DotAt(s) = 0 THEN 0 ELSE Len(s) - DotAt(s)

\* digits, no leading zero but a single 0
PureInteger(s) == Len(s) >= 1 /\ AllDigits(s) /\ (Len(s) > 1 => s[1] # "0")

LastIsConvert == last.op = "xrpToDrops"

\* C25: for every decimal string d of at most 6 fractional digits,
\* dropsToXrp(xrpToDrops(d)) equals normalize(d); xrpToDrops fails with
\* invalid_amount when the fraction has more than 6 digits; and its result
\* is a pure-integer string without leading zeros.
C25_DropsRoundTrip ==
  LastIsConvert =>
    /\ (WellFormedDecimal(last.d) /\ FractionLength(last.d) <= 6) =>
         /\ last.drops.err = Pass
         /\ last.back.err = Pass
         /\ last.normalized.err = Pass
         /\ last.back.value = last.normalized.value
         /\ CanonicalDecimal(last.back.value)
         /\ NatOf(last.drops.value) = AmountInDrops(last.d)
    /\ (WellFormedDecimal(last.d) /\ FractionLength(last.d) > 6) =>
         last.drops.err = "invalid_amount"
    /\ last.drops.err = Pass => PureInteger(last.drops.value)

\* a canonical string of six fractional digits under an integer part of zero
C25_Witness ==
  /\ LastIsConvert
  /\ last.d = <<"0", ".", "0", "0", "0", "0", "0", "5">>
  /\ last.drops.value = <<"5">>
  /\ last.back.value = last.d

\* a string with trailing zeros comes back normalized
C25_WitnessTrailingZeros ==
  /\ LastIsConvert
  /\ last.d = <<"2", "5", ".", "5", "0", "0">>
  /\ last.drops.value = <<"2", "5", "5", "0", "0", "0", "0", "0">>
  /\ last.back.value = <<"2", "5", ".", "5">>

\* seven fractional digits: invalid_amount
C25_WitnessTooFine ==
  /\ LastIsConvert /\ WellFormedDecimal(last.d) /\ FractionLength(last.d) = 7
  /\ last.drops.err = "invalid_amount"

(***************************************************************************)
(* Network identifiers.                                                    *)
(***************************************************************************)
Unsupported(network) == network \notin {"xrpl:1", "xrpl:testnet", "xrpl:devnet"}

\* the text is a JSON object whose network is a string outside the set
UnsupportedNetworkText(text) ==
  text.parse = "object" /\ text.network.type = "string" /\ Unsupported(text.network.val)

\* C24: a network string outside {xrpl:1, xrpl:testnet, xrpl:devnet} is
\* rejected by createChallenge, encodeReceiptHeader, decodeReceiptHeader and
\* the challenge validation of verifySettlement; no success and no replay
\* entry arises from an unsupported network.
C24_UnsupportedNetwork ==
  /\ (last.op = "create" /\ Unsupported(last.params.network)) =>
       last.created.err # Pass
  /\ (last.op = "encode" /\ Unsupported(last.receipt.network)) =>
       last.encoded.err # Pass
  /\ last.op = "decode" =>
       /\ UnsupportedNetworkText(last.value.text) => last.decoded.err # Pass
       /\ last.decoded.err = Pass => ~Unsupported(last.decoded.receipt.network)
  /\ (LastIsVerify /\ Unsupported(LastChallenge.network)) =>
       FailedWith("network_mismatch", 1) /\ last.trace = <<>>
  /\ (LastIsVerify /\ UnsupportedNetworkText(HeaderOf[last.header].text)) =>
       last.status = "fail" /\ last.gate <= 3 /\ last.trace = <<>>
  /\ \A r \in succeeded : ~Unsupported(r.network)
  /\ StorePairs \subseteq {PairOf(r) : r \in succeeded}

\* a challenge and a receipt of the same unsupported network, refused
C24_Witness ==
  /\ LastIsVerify
  /\ last.challenge = "unknownNet" /\ last.header = "unknownT1p1"
  /\ last.status = "fail"
  /\ StorePairs # {}

\* a receipt of an unsupported network under a supported challenge
C24_WitnessReceipt ==
  /\ LastIsVerify /\ ~Unsupported(LastChallenge.network)
  /\ last.header = "unknownT1p1"
  /\ FailedWith("invalid_receipt", 3)

C24_WitnessCreate ==
  /\ last.op = "create" /\ last.created.err = "network_mismatch"
  /\ WellFormedParams([last.params EXCEPT !.network = "xrpl:testnet"])

C24_WitnessEncode ==
  /\ last.op = "encode" /\ last.receipt.network = "xrpl:unknown"
  /\ last.receipt.txHash = "T1" /\ last.receipt.paymentId = "P1"
  /\ last.encoded.err = "network_mismatch"

C24_WitnessDecode ==
  /\ last.op = "decode" /\ last.value.form = "standard"
  /\ ReceiptObject([last.value.text EXCEPT !.network = JStr("xrpl:testnet")])
  /\ last.value.text.network = JStr("xrpl:unknown")
  /\ last.decoded.err = "invalid_receipt"

(***************************************************************************)
(* The memo scan.                                                          *)
(***************************************************************************)
\* what a MemoType or MemoFormat member reads as
FieldText(field) == IF field.form \in {"absent", "empty"} THEN Lit("") ELSE field.text

\* the entry has type x402 and format application/json
X402Shaped(memo) ==
  /\ memo.present
  /\ FieldText(memo.MemoType) = Lit("x402")
  /\ FieldText(memo.MemoFormat) = Lit("application/json")

\* the entry has no data
DataEmpty(memo) == ~memo.present \/ memo.MemoData.form \in {"absent", "empty"}

\* the data of the entry is hex of a JSON text: of an object, of a number,
\* of null
DataIsJson(memo) ==
  memo.MemoData.form = "hex" /\ memo.MemoData.text.lit \in {"json", "1", "null"}

DataIsNull(memo) == memo.MemoData.form = "hex" /\ memo.MemoData.text.lit = "null"

\* an x402/application-json entry whose data is no parseable JSON
UnparseableEntry(memo) == X402Shaped(memo) /\ ~DataEmpty(memo) /\ ~DataIsJson(memo)

\* an x402/application-json entry with well-formed JSON that does not match
UnmatchedEntry(memo, paymentId) ==
  X402Shaped(memo) /\ DataIsJson(memo) /\ ~BoundEntry(memo, paymentId)

\* an entry of another type or format, or without data
ForeignEntry(memo) == ~X402Shaped(memo) \/ DataEmpty(memo)

LastIsMatchMemo == last.op = "matchMemo"

LastList == last.memos.list

\* the first entry of the list that matches the paymentId, 0 when none does
FirstBound ==
  IF \E i \in DOMAIN LastList : BoundEntry(LastList[i], last.paymentId)
    THEN CHOOSE i \in DOMAIN LastList :
           /\ BoundEntry(LastList[i], last.paymentId)
           /\ \A j \in 1..(i - 1) : ~BoundEntry(LastList[j], last.paymentId)
    ELSE 0

\* an unparseable x402 entry before any matching one is fatal
UnparseableIsFatal ==
  (\E i \in DOMAIN LastList :
     /\ UnparseableEntry(LastList[i])
     /\ FirstBound = 0 \/ i < FirstBound) => last.result = "invalid_memo"

\* C26: an x402/application-json entry whose data is not parseable JSON,
\* reached before any matching entry, makes the check fail with invalid_memo
\* even if a later entry would match; an x402/application-json entry with
\* well-formed JSON that does not match is skipped and the scan goes on.
C26_MalformedFatalUnmatchedSkipped ==
  LastIsMatchMemo =>
    /\ UnparseableIsFatal
    /\ (/\ FirstBound # 0
        /\ \A j \in 1..(FirstBound - 1) : UnmatchedEntry(LastList[j], last.paymentId))
         => last.result = Pass

\* what the scan does: the unmatched entries it skips are those whose JSON
\* is an object or a number; JSON null is fatal like unparseable data
C26_NullFatal ==
  LastIsMatchMemo =>
    /\ UnparseableIsFatal
    /\ (/\ FirstBound # 0
        /\ \A j \in 1..(FirstBound - 1) : UnmatchedEntry(LastList[j], last.paymentId))
         => (last.result = Pass <=>
               \A j \in 1..(FirstBound - 1) : ~DataIsNull(LastList[j]))

\* an x402 entry of JSON null before the memo of the payment: invalid_memo
C26_Witness ==
  /\ LastIsMatchMemo /\ last.paymentId = "P1"
  /\ LastList = <<X402Memo(Lit("null")), MemoP1>>
  /\ last.result = "invalid_memo"

\* unparseable data before the memo of the payment: invalid_memo
C26_WitnessUnparseable ==
  /\ LastIsMatchMemo /\ last.paymentId = "P1"
  /\ LastList = <<X402Memo(Lit("not json")), MemoP1>>
  /\ last.result = "invalid_memo"

\* the memo of another payment and one of another version, skipped
C26_WitnessSkipped ==
  /\ LastIsMatchMemo /\ last.paymentId = "P1"
  /\ LastList = <<MemoP2,
                  X402Memo(JsonText(JNum("2"), JStr("x402"), JStr("P1"), JAbsent)),
                  MemoP1>>
  /\ last.result = Pass

\* the list holds an entry that matches and otherwise foreign entries only
OneBoundAmongForeign ==
  /\ LastIsMatchMemo
  /\ FirstBound # 0
  /\ \A i \in DOMAIN LastList :
       BoundEntry(LastList[i], last.paymentId) \/ ForeignEntry(LastList[i])

\* hexToUtf8 reads the data of the entry without throwing
DataDecodable(memo) ==
  \/ DataEmpty(memo)
  \/ memo.MemoData.form = "hex"
  \/ memo.MemoData.form = "plain" /\ ~memo.MemoData.nan

\* C27: the scan skips, and never fails on, an entry whose type/format are
\* not x402/application-json or whose data is empty: a list of one entry
\* matching the paymentId and otherwise such entries only is accepted,
\* whatever their data and wherever they sit.
C27_ForeignSkipped ==
  OneBoundAmongForeign => last.result = Pass

\* what the scan does: such a list is accepted exactly when hexToUtf8 can
\* read the data of every foreign entry that stands before the matching one
C27_ForeignDataDecoded ==
  OneBoundAmongForeign =>
    (last.result = Pass <=>
       \A j \in 1..(FirstBound - 1) : DataDecodable(LastList[j]))

\* a memo of another type with data of odd length before the memo of the
\* payment: invalid_memo
C27_Witness ==
  /\ OneBoundAmongForeign /\ last.paymentId = "P1"
  /\ LastList = <<ForeignMemo(OddHexField("abc")), MemoP1>>
  /\ last.result = "invalid_memo"

\* the same entries the other way round: accepted
C27_WitnessAfter ==
  /\ OneBoundAmongForeign /\ last.paymentId = "P1"
  /\ LastList = <<MemoP1, ForeignMemo(OddHexField("abc"))>>
  /\ last.result = Pass

\* foreign entries with hex data around the memo of the payment: accepted
C27_WitnessSkipped ==
  /\ OneBoundAmongForeign /\ last.paymentId = "P1"
  /\ LastList = <<ForeignMemo(utf8ToHex(Lit("hello"))), MemoP1, NoMemo>>
  /\ last.result = Pass

(***************************************************************************)
(* The order of the gates.                                                 *)
(***************************************************************************)
\* the text of the receipt header of the last call
LastHeaderText == HeaderOf[last.header].text

\* the header of the last call decodes to a receipt
LastHeaderIsReceipt ==
  HeaderOf[last.header].form \in Base64Forms /\ ReceiptObject(LastHeaderText)

\* the store holds another txHash for the paymentId of the last call, or
\* another paymentId for its txHash
LastStoreConflict ==
  /\ LastHeaderIsReceipt
  /\ \/ MapGet(paymentIdToTxHash, LastChallenge.paymentId)
          \notin {Undefined, LastHeaderText.txHash.val}
     \/ MapGet(txHashToPaymentId, LastHeaderText.txHash.val)
          \notin {Undefined, LastChallenge.paymentId}

\* the steps that can be told of the last call: steps 1-6 of a call that
\* returned before the fetch, steps 1-5 and 7-14 of one that awaited it
StepsTold ==
  IF last.fetched = "none" THEN 1..6
  ELSE IF last.fetched = "null" THEN (1..5) \cup {7}
  ELSE (1..5) \cup (7..14)

\* step k, taken alone, refuses the inputs of the last call
StepFails(k) ==
  CASE k = 1 -> ~WellFormedChallenge(LastChallenge)
    [] k = 2 -> LastNowAfterExpiry
    [] k = 3 -> ~LastHeaderIsReceipt
    [] k = 4 -> LastHeaderIsReceipt
                  /\ LastHeaderText.network.val # LastChallenge.network
    [] k = 5 -> LastHeaderIsReceipt
                  /\ LastHeaderText.paymentId.val # LastChallenge.paymentId
    [] k = 6 -> LastStoreConflict
    [] k = 7 -> last.fetched = "null"
    [] k = 8 -> ~ValidatedPayment(last.tx)
    [] k = 9 -> ~HasPayer(last.tx)
    [] k = 10 -> \/ last.tx.Destination # LastChallenge.destination
                 \/ last.tx.DestinationTag.present
    [] k = 11 -> SafeModeViolation(last.tx)
    [] k = 12 -> assertAmountAndAssetMatch(LastChallenge, last.tx.Amount) # Pass
    [] k = 13 -> assertMemoMatches(last.tx.Memos, LastChallenge.paymentId) # Pass
    [] k = 14 -> LastStoreConflict

FailingSteps == {k \in StepsTold : StepFails(k)}

LowestFailingStep == CHOOSE k \in FailingSteps : \A j \in FailingSteps : k <= j

\* the failure kinds of each step of the algorithm
KindsOfStep ==
  [k \in 1..14 |->
     CASE k = 1 -> {"invalid_challenge"}
       [] k = 2 -> {"expired_challenge"}
       [] k = 3 -> {"invalid_receipt"}
       [] k = 4 -> {"network_mismatch"}
       [] k = 5 -> {"invalid_receipt"}
       [] k = 6 -> {"replay_detected"}
       [] k = 7 -> {"tx_not_found"}
       [] k = 8 -> {"tx_not_validated"}
       [] k = 9 -> {"invalid_receipt"}
       [] k = 10 -> {"invalid_destination"}
       [] k = 11 -> {"invalid_asset"}
       [] k = 12 -> {"invalid_asset", "invalid_amount"}
       [] k = 13 -> {"invalid_memo"}
       [] k = 14 -> {"replay_detected"}]

\* the call stops at the lowest failing step, and succeeds when none fails
StopsAtLowestFailingStep ==
  /\ last.status = "fail" <=> FailingSteps # {}
  /\ last.status = "fail" => last.gate = LowestFailingStep

C28_GateOrder ==
  LastIsVerify =>
    /\ StopsAtLowestFailingStep
    /\ last.status = "fail" =>
         last.code \in IF LowestFailingStep = 1 /\ ~SupportedNetwork(LastChallenge)
                         THEN {"network_mismatch"}
                         ELSE KindsOfStep[LowestFailingStep]

C28_WitnessNotValidated ==
  /\ LastIsVerify /\ last.fetched = "record"
  /\ {8, 10} \subseteq FailingSteps /\ LowestFailingStep = 8
  /\ FailedWith("tx_not_validated", 8)

\* a wrong destination with a wrong amount: invalid_destination
C28_WitnessDestination ==
  /\ LastIsVerify /\ last.fetched = "record"
  /\ FailingSteps = {10, 12}
  /\ FailedWith("invalid_destination", 10)

\* a wrong amount with a missing memo: invalid_amount
C28_WitnessAmount ==
  /\ LastIsVerify /\ last.fetched = "record"
  /\ FailingSteps = {12, 13}
  /\ ~last.tx.Memos.present
  /\ FailedWith("invalid_amount", 12)

\* a record right at every step, its pair taken during the await
C28_WitnessRegister ==
  /\ LastIsVerify /\ last.fetched = "record"
  /\ FailingSteps = {14}
  /\ FailedWith("replay_detected", 14)

(***************************************************************************)
(* C29: what the store holds stays, and comes from a success.              *)
(***************************************************************************)
\* every entry of either map is the same after the step
EntriesKept ==
  /\ \A p \in PaymentIds :
       paymentIdToTxHash[p] # Undefined => paymentIdToTxHash'[p] = paymentIdToTxHash[p]
  /\ \A t \in TxHashes :
       txHashToPaymentId[t] # Undefined => txHashToPaymentId'[t] = txHashToPaymentId[t]

\* the step is the return of a verifySettlement call that passed steps 1-13
\* for the pair of its receipt, and that pair is all the step adds
AddedBySuccess ==
  /\ last'.op = "verify" /\ last'.status = "ok" /\ ~last'.idempotent
  /\ AdmissionOf[last'.challenge, last'.header, last'.now].status = "ok"
  /\ last'.fetched \notin {"none", "error"}
  /\ VerdictOf[last'.challenge, last'.fetched].code = Pass
  /\ getTxHashByPaymentId(paymentIdToTxHash', last'.receipt.paymentId) = last'.receipt.txHash
  /\ getPaymentIdByTxHash(txHashToPaymentId', last'.receipt.txHash) = last'.receipt.paymentId
  /\ \A p \in PaymentIds \ {last'.receipt.paymentId} :
       paymentIdToTxHash'[p] = paymentIdToTxHash[p]
  /\ \A t \in TxHashes \ {last'.receipt.txHash} :
       txHashToPaymentId'[t] = txHashToPaymentId[t]

\* C29: replay entries are permanent and arise only from success: whatever
\* verifySettlement or register call takes a step, an entry the store holds
\* is still there with the same value afterwards, and a step that changes the
\* store without being a caller's own register is the return of a
\* verifySettlement call that passed steps 1-13 for the pair it adds (the
\* store starts empty, so with verifySettlement as the only writer every pair
\* comes from such a call).
C29_PermanentFromSuccess ==
  [][/\ EntriesKept
     /\ (StoreChanges /\ last'.op # "register") => AddedBySuccess]_vars

\* C29 witness: a pair a verifySettlement call registered is still in the
\* store after a register call that conflicts with it was made and refused.
C29_Witness ==
  /\ last.op = "register" /\ last.status = "fail"
  /\ \E r \in succeeded :
       /\ getTxHashByPaymentId(paymentIdToTxHash, r.paymentId) = r.txHash
       /\ getPaymentIdByTxHash(txHashToPaymentId, r.txHash) = r.paymentId
       /\ (last.receipt.paymentId = r.paymentId) # (last.receipt.txHash = r.txHash)

\* C29 witness: a pair a verifySettlement call registered is still in the
\* store after a later verifySettlement call for one of its keys and another
\* partner was refused as a replay.
C29_WitnessVerify ==
  /\ LastIsVerify /\ last.status = "fail" /\ last.code = "replay_detected"
  /\ \E r \in last.seen :
       /\ getTxHashByPaymentId(paymentIdToTxHash, r.paymentId) = r.txHash
       /\ getPaymentIdByTxHash(txHashToPaymentId, r.txHash) = r.paymentId

(***************************************************************************)
(* C30: the two maps are inverses of each other.                           *)
(***************************************************************************)
\* lookupTxHash(P) = T iff lookupPaymentId(T) = P, for every P and T
ExactInverses(p2t, t2p) ==
  \A p \in PaymentIds, t \in TxHashes :
    getTxHashByPaymentId(p2t, p) = t <=> getPaymentIdByTxHash(t2p, t) = p

\* one direction agrees with the pair while the other is undefined
HalfPaired(p2t, t2p, paymentId, txHash) ==
  \/ /\ getTxHashByPaymentId(p2t, paymentId) = txHash
     /\ getPaymentIdByTxHash(t2p, txHash) = Undefined
  \/ /\ getPaymentIdByTxHash(t2p, txHash) = paymentId
     /\ getTxHashByPaymentId(p2t, paymentId) = Undefined

\* neither key of the pair is in the store
BothEmpty(p2t, t2p, paymentId, txHash) ==
  /\ getTxHashByPaymentId(p2t, paymentId) = Undefined
  /\ getPaymentIdByTxHash(t2p, txHash) = Undefined

\* C30: in every reachable state of the store the two maps are exact
\* inverses, lookupTxHash(P) = T iff lookupPaymentId(T) = P; no pair has one
\* direction agreeing and the other undefined; and a verifySettlement call
\* that reaches its replay lookup either fails there with replay_detected,
\* returns through the idempotent path, or goes on to the fetch having found
\* both directions empty.
C30_ExactInverses ==
  [][/\ ExactInverses(paymentIdToTxHash, txHashToPaymentId)
     /\ StoreChanges =>
          /\ ExactInverses(paymentIdToTxHash', txHashToPaymentId')
          /\ \A p \in PaymentIds, t \in TxHashes :
               ~HalfPaired(paymentIdToTxHash', txHashToPaymentId', p, t)
     /\ \A c \in Calls :
          (calls[c].pc = "idle" /\ calls'[c].pc = "fetch") =>
            BothEmpty(paymentIdToTxHash, txHashToPaymentId,
                      calls'[c].receipt.paymentId, calls'[c].receipt.txHash)
     /\ (last' # last /\ last'.op = "verify" /\ last'.gate = 6) =>
          \/ /\ last'.status = "fail" /\ last'.code = "replay_detected"
             /\ ~BothEmpty(paymentIdToTxHash, txHashToPaymentId,
                           LastDecoded'.receipt.paymentId, LastDecoded'.receipt.txHash)
          \/ /\ last'.status = "ok" /\ last'.idempotent
             /\ getTxHashByPaymentId(paymentIdToTxHash, last'.receipt.paymentId)
                  = last'.receipt.txHash
             /\ getPaymentIdByTxHash(txHashToPaymentId, last'.receipt.txHash)
                  = last'.receipt.paymentId]_vars

\* C30 witness: with a pair in the store, one call found both directions
\* empty for its own pair and waits for its fetch, and the call that returned
\* last went through the idempotent path.
C30_Witness ==
  /\ StorePairs # {}
  /\ \E c \in Calls : calls[c].pc = "fetch"
  /\ LastIsVerify /\ last.status = "ok" /\ last.idempotent

\* C30 witness: with a pair in the store, a call for one of its keys and
\* another partner was refused at its replay lookup.
C30_WitnessReplay ==
  /\ LastIsVerify /\ last.status = "fail" /\ last.code = "replay_detected"
  /\ last.gate = 6
  /\ \E pair \in StorePairs :
       (LastDecoded.receipt.paymentId = pair[1]) # (LastDecoded.receipt.txHash = pair[2])

(***************************************************************************)
(* C31: what backs a success.                                              *)
(***************************************************************************)
\* the members of a challenge the transaction checks compare
TermsOf(challenge) ==
  [network |-> challenge.network, destination |-> challenge.destination,
   asset |-> challenge.asset, amount |-> challenge.amount]

\* the step goes from the return of the call that registered a pair to the
\* return of a call that succeeded for the same pair through the idempotent
\* path
RegisteredThenIdempotent ==
  /\ last.op = "verify" /\ last.status = "ok" /\ ~last.idempotent
  /\ last'.op = "verify" /\ last'.status = "ok" /\ last'.idempotent
  /\ PairOf(last'.receipt) = PairOf(last.receipt)

\* C31: every success of verifySettlement for challenge C and receipt (P, T)
\* is backed by a check of a validated Payment for T against C's own network,
\* destination, asset and amount: a non-idempotent success passed the
\* transaction checks against C in its own call, and an idempotent success is
\* returned only for a challenge whose network, destination, asset and amount
\* are those of the challenge under which (P, T) was registered.
C31_SuccessBackedByCheck ==
  [][/\ (last'.op = "verify" /\ last'.status = "ok" /\ ~last'.idempotent) =>
          /\ last'.fetched \notin {"none", "error", "null"}
          /\ VerdictOf[last'.challenge, last'.fetched].code = Pass
     /\ RegisteredThenIdempotent =>
          TermsOf(ChallengeOf[last'.challenge]) = TermsOf(ChallengeOf[last.challenge])]_vars

\* C31 witness: an idempotent success for a challenge that asks for an issued
\* currency, no transaction fetched in the call. No fetch under SpecRepeat
\* carries an issued-currency Amount, so the pair was registered under a
\* challenge for XRP.
C31_Witness ==
  /\ LastIsVerify /\ last.status = "ok" /\ last.idempotent
  /\ last.fetched = "none"
  /\ ChallengeOf[last.challenge].asset # XrpAsset
  /\ StorePairs = {PairOf(last.receipt)}

\* C31 witness: an idempotent success for a challenge that names rOTHER as
\* its destination while the pair is registered.
C31_WitnessDestination ==
  /\ LastIsVerify /\ last.status = "ok" /\ last.idempotent
  /\ ChallengeOf[last.challenge].destination = "rOTHER"

\* C31 witness: an idempotent success for a challenge on xrpl:1.
C31_WitnessNetwork ==
  /\ LastIsVerify /\ last.status = "ok" /\ last.idempotent
  /\ ChallengeOf[last.challenge].network = "xrpl:1"

(***************************************************************************)
(* C32: the successes of one store agree.                                  *)
(***************************************************************************)
\* C32: on one replay store, all verifySettlement calls that ever returned
\* success for a given paymentId, idempotent or not, one after the other or
\* overlapping at the fetch, carry the same txHash, and all successes for a
\* given txHash carry the same paymentId.
C32_SuccessesAgree ==
  \A r1 \in succeeded, r2 \in succeeded :
    /\ r1.paymentId = r2.paymentId => r1.txHash = r2.txHash
    /\ r1.txHash = r2.txHash => r1.paymentId = r2.paymentId

\* C32 witness: two pairs have succeeded, the call that returned last
\* overlapped another call at the fetch and was refused by register for a
\* pair that shares a key with a success.
C32_Witness ==
  /\ Cardinality({PairOf(r) : r \in succeeded}) = 2
  /\ LastIsVerify /\ last.status = "fail" /\ last.code = "replay_detected"
  /\ last.gate = 14

\* C32 witness: the same pair has succeeded twice, once through the
\* idempotent path.
C32_WitnessIdempotent ==
  /\ LastIsVerify /\ last.status = "ok" /\ last.idempotent
  /\ \E r \in last.seen : PairOf(r) = PairOf(last.receipt)

(***************************************************************************)
(* C33: payerAccount on the two kinds of success.                          *)
(***************************************************************************)
\* the last call invoked adapter.fetchTransaction
LastCalledFetch ==
  \E i \in DOMAIN last.trace : last.trace[i] = "fetchTransaction"

C33_WitnessFetched ==
  /\ LastIsVerify /\ last.status = "ok" /\ ~last.idempotent
  /\ last.payerAccount = "rPAYER2"
  /\ last.tx.Account = "rPAYER2"

(***************************************************************************)
(* C34: XRP challenges finer than a drop.                                  *)
(***************************************************************************)
\* the challenge of the last call asks for XRP with a normalized amount of
\* more than 6 fractional digits
LastChallengeTooFine ==
  /\ LastIsVerify
  /\ LastChallenge.asset.kind = "XRP"
  /\ normalizeDecimal(LastChallenge.amount).value = LastChallenge.amount
  /\ Len(SplitFraction(LastChallenge.amount)) > 6

\* createChallenge returns the challenge of the last call for its members
CreatedFromOwnMembers ==
  LET made == createChallenge([network |-> LastChallenge.network,
                               amount |-> LastChallenge.amount,
                               asset |-> LastChallenge.asset,
                               destination |-> LastChallenge.destination,
                               expiresAt |-> LastChallenge.expiresAt,
                               paymentId |-> LastChallenge.paymentId,
                               sessionId |-> LastChallenge.memo.sessionId])
  IN  made.err = Pass /\ made.challenge = LastChallenge

\* createChallenge and validateChallenge accept the challenge of the last
\* call, and if the call fetched a record it failed without calling register,
\* with invalid_amount when it reached the amount step with a string Amount
TooFineFailsOnceFetched ==
  /\ CreatedFromOwnMembers
  /\ validateChallenge(LastChallenge) = Pass
  /\ last.fetched # "none" =>
       /\ last.status = "fail"
       /\ \A i \in DOMAIN last.trace : last.trace[i] # "register"
       /\ (ReachedAmountStep /\ LastTxAmount.kind = "string") =>
            FailedWith("invalid_amount", 12)

\* C34: createChallenge and validateChallenge accept an XRP challenge whose
\* normalized amount has more than 6 fractional digits, but no verification
\* against such a challenge succeeds: every call that reaches the amount step
\* with a string Amount fails with invalid_amount whatever the drops value,
\* and nothing is registered.
C34_TooFineNeverSucceeds ==
  LastChallengeTooFine =>
    /\ TooFineFailsOnceFetched
    /\ last.status = "fail"

\* the part of C34 on the calls that fetch: such a challenge is accepted by
\* createChallenge and validateChallenge, and a call under it that fetches a
\* record fails, with invalid_amount at the amount step for a string Amount,
\* and registers nothing
C34_TooFineFailsAtAmountStep ==
  LastChallengeTooFine => TooFineFailsOnceFetched

\* C34 witness: under such a challenge a call returned success through the
\* idempotent path, for the pair an earlier call registered under a challenge
\* of another amount.
C34_Witness ==
  /\ LastChallengeTooFine
  /\ last.status = "ok" /\ last.idempotent
  /\ PairOf(last.receipt) \in StorePairs

\* C34 witness: under such a challenge a record with a drops string reached
\* the amount step and failed with invalid_amount, the store empty.
C34_WitnessInvalidAmount ==
  /\ LastChallengeTooFine
  /\ ReachedAmountStep /\ LastTxAmount.kind = "string"
  /\ FailedWith("invalid_amount", 12)
  /\ StorePairs = {}
=============================================================================
